---- MODULE Spec2Model ----
(***************************************************************************)
(* State-machine model of the tinyopgp protocol client of localpgp:        *)
(* the Message builder (message.ts), the Connection (connection.ts) with   *)
(* its chunked-response reassembly, and the error taxonomy they raise.     *)
(* On top of them: the signature normalizer (signature.ts), key records    *)
(* (key.ts) and the keyring facade (keyring.ts), whose posts are answered  *)
(* by the engine.                                                          *)
(* Last, the origin check of the Chrome background script on messages     *)
(* from web pages (background.ts, options.ts).                             *)
(* The native-messaging transport and the gpgme-json engine are the        *)
(* environment: they deliver inbound events and disconnects.               *)
(***************************************************************************)
EXTENDS Integers, Sequences, FiniteSets, TLC

VARIABLES conns, engine, posts, written, message, chk, sigs, ring

vars == <<conns, engine, posts, written, message, chk, sigs, ring>>

----------------------------------------------------------------------------
(* Bounds of the model *)

\* Connection instances created in one run
MaxConns == 2
\* post() calls in one run
MaxPosts == 1
\* post() calls in one run that share one Connection
MaxShared == 2
\* inbound events the transport delivers on one Connection
MaxEvents == 3
\* largest checkConnection timeout, in polling intervals
MaxTimeoutTicks == 3
\* setParameter / property assignments on one Message
MaxSets == 2
\* signature records in one verification result
MaxSigs == 2
\* entries in one import result
MaxImports == 2
\* keys in one key listing
MaxKeys == 2
\* refresh() calls on one key
MaxRefreshes == 2
\* characters in one text to encrypt
MaxText == 2

----------------------------------------------------------------------------
(* JavaScript values *)

Null == "<null>"
Undefined == "<undefined>"

\* JavaScript truthiness of a string-or-null value
Truthy(s) == s # Null /\ s # Undefined /\ s # ""

----------------------------------------------------------------------------
(* base64 and JSON, as atob / JSON.parse compute them.                     *)
(* A base64 text is a sequence of symbols: 0..63 are the alphabet's        *)
(* sextets, PadSym is '=', BadSym is a character outside the alphabet.     *)

PadSym == 63 + 1
BadSym == 63 + 2

\* btoa: the engine's encoding of a byte string (3 bytes -> 4 symbols)
Btoa(bytes) ==
  LET n == Len(bytes)
      B(k) == IF k <= n THEN bytes[k] ELSE 0
      Sym(i) ==
        LET g == (i - 1) \div 4
            j == (i - 1) % 4
            b1 == B(3 * g + 1)
            b2 == B(3 * g + 2)
            b3 == B(3 * g + 3)
        IN  CASE j = 0 -> b1 \div 4
              [] j = 1 -> (b1 % 4) * 16 + (b2 \div 16)
              [] j = 2 -> IF 3 * g + 2 > n THEN PadSym
                          ELSE (b2 % 16) * 4 + (b3 \div 64)
              [] j = 3 -> IF 3 * g + 3 > n THEN PadSym ELSE b3 % 64
  IN  [i \in 1..(4 * ((n + 2) \div 3)) |-> Sym(i)]

\* atob, step 1: a text whose length is a multiple of 4 loses one or two
\* trailing '='
StripPad(s) ==
  LET n == Len(s)
  IN  IF n > 0 /\ n % 4 = 0 /\ s[n] = PadSym
      THEN IF s[n - 1] = PadSym THEN SubSeq(s, 1, n - 2) ELSE SubSeq(s, 1, n - 1)
      ELSE s

\* atob: [ok, bytes]; fails on length % 4 = 1 and on any symbol outside the
\* alphabet ('=' left inside the text included)
Atob(s) ==
  LET d == StripPad(s)
      n == Len(d)
      nbytes == (n * 6) \div 8
      Byte(k) ==
        LET g == (k - 1) \div 3
            j == (k - 1) % 3
            S(i) == IF 4 * g + i <= n THEN d[4 * g + i] ELSE 0
        IN  CASE j = 0 -> S(1) * 4 + (S(2) \div 16)
              [] j = 1 -> (S(2) % 16) * 16 + (S(3) \div 4)
              [] j = 2 -> (S(3) % 4) * 64 + S(4)
  IN  IF n % 4 = 1 \/ \E i \in 1..n : d[i] > 63
      THEN [ok |-> FALSE, bytes |-> <<>>]
      ELSE [ok |-> TRUE, bytes |-> [k \in 1..nbytes |-> Byte(k)]]

\* The JSON texts the engine's replies are drawn from (ASCII bytes)
\* {}
TextEmpty == <<123, 125>>
\* {"a":"1"}
TextData == <<123, 34, 97, 34, 58, 34, 49, 34, 125>>
\* {"type":"error","msg":"m"}
TextError == <<123, 34, 116, 121, 112, 101, 34, 58, 34, 101, 114, 114, 111,
               114, 34, 44, 34, 109, 115, 103, 34, 58, 34, 109, 34, 125>>
\* {"type":"error"}
TextErrorNoMsg == <<123, 34, 116, 121, 112, 101, 34, 58, 34, 101, 114, 114,
                    111, 114, 34, 125>>
\* null
TextNull == <<110, 117, 108, 108>>
\* {   (not JSON)
TextBroken == <<123>>

EmptyObj == <<>>

\* JSON.parse on the texts above: [ok, isNull, obj]; every other text is a
\* SyntaxError
JsonParse(bytes) ==
  CASE bytes = TextEmpty -> [ok |-> TRUE, isNull |-> FALSE, obj |-> EmptyObj]
    [] bytes = TextData -> [ok |-> TRUE, isNull |-> FALSE, obj |-> [a |-> "1"]]
    [] bytes = TextError ->
         [ok |-> TRUE, isNull |-> FALSE, obj |-> [type |-> "error", msg |-> "m"]]
    [] bytes = TextErrorNoMsg ->
         [ok |-> TRUE, isNull |-> FALSE, obj |-> [type |-> "error"]]
    [] bytes = TextNull -> [ok |-> TRUE, isNull |-> TRUE, obj |-> EmptyObj]
    [] OTHER -> [ok |-> FALSE, isNull |-> FALSE, obj |-> EmptyObj]

\* Property read obj.key of a decoded object
Prop(obj, key) == IF key \in DOMAIN obj THEN obj[key] ELSE Undefined

----------------------------------------------------------------------------
(* Error taxonomy *)

CONN_NO_CONFIG == "CONN_NO_CONFIG"
CONN_NO_CONNECT == "CONN_NO_CONNECT"
CONN_NATIVEMESSAGE == "CONN_NATIVEMESSAGE"
SIG_WRONG == "SIG_WRONG"
KEY_INVALID == "KEY_INVALID"
KEY_NO_DEFAULT == "KEY_NO_DEFAULT"
PARAM_WRONG == "PARAM_WRONG"
CONN_UNEXPECTED_ANSWER == "CONN_UNEXPECTED_ANSWER"
MSG_INCOMPLETE == "MSG_INCOMPLETE"
GNUPG_ERROR == "GNUPG_ERROR"
\* a JavaScript TypeError, which is no GpgmeError
TypeError == "TypeError"

\* new GpgmeError(code, details): details is kept as given
GpgmeError(code, details) == [code |-> code, detail |-> details]

\* GpgmeError.isConnectionError
isConnectionError(code) ==
  code \in {CONN_NO_CONFIG, CONN_NO_CONNECT, CONN_NATIVEMESSAGE,
            "CONN_TIMEOUT", CONN_UNEXPECTED_ANSWER, "CONN_ALREADY_CONNECTED"}

----------------------------------------------------------------------------
(* Connection: transport handle, last error, host-unknown flag *)

\* What chrome.runtime.connectNative does in connect(): returns a port, or
\* throws a value (an Error with a message, or something that is no Error)
ConnectOutcomes ==
  { [threw |-> FALSE, isError |-> FALSE, message |-> ""],
    [threw |-> TRUE, isError |-> TRUE, message |-> "connectNative failed"],
    [threw |-> TRUE, isError |-> TRUE, message |-> ""],
    [threw |-> TRUE, isError |-> FALSE, message |-> ""] }

\* chrome.runtime.lastError.message at a transport disconnect; Undefined
\* when chrome.runtime.lastError is not set
LastErrors ==
  { Undefined,
    "",
    "Specified native messaging host not found.",
    "Native host has exited.",
    "Error when communicating with the native messaging host." }

\* String.prototype.includes on the texts above
Includes(text, needle) ==
  <<text, needle>> \in
    { <<"Specified native messaging host not found.", "not found">>,
      <<"Native host has exited.", "Native host has exited">> }

\* Connection constructor -> connect()
connect(outcome) ==
  IF ~outcome.threw
  THEN [port |-> "open", connectionError |-> Null, isNativeHostUnknown |-> FALSE]
  ELSE [port |-> "null",
        connectionError |->
          IF outcome.isError THEN outcome.message ELSE "Unknown connection error",
        isNativeHostUnknown |-> FALSE]

\* The onDisconnect listener connect() registers on the port
onPortDisconnect(conn, lastError) ==
  IF lastError # Undefined
  THEN [port |-> "null",
        connectionError |-> lastError,
        isNativeHostUnknown |->
          IF Includes(lastError, "not found")
               \/ Includes(lastError, "Native host has exited")
          THEN TRUE ELSE conn.isNativeHostUnknown]
  ELSE [conn EXCEPT !.port = "null",
                    !.connectionError = "Disconnected without error message"]

\* A disconnect that drops the handle and records nothing
disconnectSilent(conn) == [conn EXCEPT !.port = "null"]

\* Connection.disconnect
disconnect(conn) ==
  IF conn.port # "null"
  THEN [conn EXCEPT !.port = "null",
                    !.connectionError = "Disconnect requested by client"]
  ELSE conn

\* Connection.isConnected
isConnected(conn) == conn.port # "null"

\* Connection.getConnectionError; `x || undefined` turns '' and null into
\* undefined
getConnectionError(conn) ==
  IF conn.isNativeHostUnknown
  THEN GpgmeError(CONN_NO_CONFIG, Undefined)
  ELSE GpgmeError(CONN_NATIVEMESSAGE,
                  IF Truthy(conn.connectionError) THEN conn.connectionError
                  ELSE Undefined)

\* check() without the timeout test
checkNoTimeout(conn, elapsed, timeout) ==
  IF Truthy(conn.connectionError) THEN "false"
  ELSE IF conn.port # "null" THEN "true"
  ELSE "poll"

\* One step of checkConnection's check(): "false", "true" or "poll"
check(conn, elapsed, timeout) ==
  IF Truthy(conn.connectionError) THEN "false"
  ELSE IF conn.port # "null" THEN "true"
  ELSE IF elapsed > timeout THEN "false"
  ELSE "poll"

----------------------------------------------------------------------------
(* Connection.post: one promise per call *)

\* A settled promise never changes: resolve/reject after settling do nothing
Settle(p, state, value, err, via) ==
  IF p.state = "pending"
  THEN [p EXCEPT !.state = state, !.value = value, !.code = err.code,
                 !.detail = err.detail, !.via = via]
  ELSE p

Resolve(p, value, via) ==
  Settle(p, "resolved", value, GpgmeError("", Undefined), via)

Reject(p, err, via) == Settle(p, "rejected", EmptyObj, err, via)

\* cleanup(): the message listener is removed only while the port is set
cleanup(p, conn) ==
  IF conn.port # "null" THEN [p EXCEPT !.listening = FALSE] ELSE p

\* Inbound events: no payload at all, or an object with an optional
\* response fragment and a more flag
NoPayload ==
  [payload |-> FALSE, hasResponse |-> FALSE, response |-> <<>>, more |-> FALSE]

Chunk(fragment, hasResponse, more) ==
  [payload |-> TRUE, hasResponse |-> hasResponse, response |-> fragment,
   more |-> more]

\* Accumulate with the fragment put in front of the buffer
AccumulateInFront(buf, ev) ==
  IF ev.hasResponse /\ ev.response # <<>> THEN ev.response \o buf ELSE buf

\* handleMessage: `if (rawResponse.response) responseB64 += ...`
Accumulate(buf, ev) ==
  IF ev.hasResponse /\ ev.response # <<>> THEN buf \o ev.response ELSE buf

DEFAULT_CHUNKSIZE == 1023 * 1024

\* A continuation that sends the request again
ResendRequest(msg) == msg

\* A continuation that always asks for the default chunk size
GetMoreDefaultSize(msg) == [op |-> "getmore", chunksize |-> DEFAULT_CHUNKSIZE]

\* The continuation: {op: 'getmore',
\*                    chunksize: message.chunksize || DEFAULT_CHUNKSIZE}
GetMore(msg) ==
  [op |-> "getmore",
   chunksize |-> IF msg.chunksize # 0 THEN msg.chunksize ELSE DEFAULT_CHUNKSIZE]

\* DecodeResponse without the type === 'error' test
DecodeResponseNoErrorTest(p, buf) ==
  LET bin == Atob(buf)
      js == JsonParse(bin.bytes)
  IN  IF ~bin.ok
      THEN Reject(p, GpgmeError(CONN_UNEXPECTED_ANSWER, "InvalidCharacterError"),
                  "message")
      ELSE IF ~js.ok
      THEN Reject(p, GpgmeError(CONN_UNEXPECTED_ANSWER, "SyntaxError"), "message")
      ELSE IF js.isNull
      THEN Reject(p, GpgmeError(CONN_UNEXPECTED_ANSWER, TypeError), "message")
      ELSE Resolve(p, js.obj, "message")

\* DecodeResponse without the try/catch: a throw escapes the listener and
\* the promise stays as it was
DecodeResponseUncaught(p, buf) ==
  LET bin == Atob(buf)
      js == JsonParse(bin.bytes)
  IN  IF ~bin.ok \/ ~js.ok \/ js.isNull THEN p
      ELSE IF Prop(js.obj, "type") = "error"
      THEN Reject(p, GpgmeError(GNUPG_ERROR, Prop(js.obj, "msg")), "message")
      ELSE Resolve(p, js.obj, "message")

\* handleMessage, completion: atob, JSON.parse, the type === 'error' test;
\* any throw inside the try block is caught and rejects
DecodeResponse(p, buf) ==
  LET bin == Atob(buf)
      js == JsonParse(bin.bytes)
  IN  IF ~bin.ok
      THEN Reject(p, GpgmeError(CONN_UNEXPECTED_ANSWER, "InvalidCharacterError"),
                  "message")
      ELSE IF ~js.ok
      THEN Reject(p, GpgmeError(CONN_UNEXPECTED_ANSWER, "SyntaxError"), "message")
      ELSE IF js.isNull
      THEN Reject(p, GpgmeError(CONN_UNEXPECTED_ANSWER, TypeError), "message")
      ELSE IF Prop(js.obj, "type") = "error"
      THEN Reject(p, GpgmeError(GNUPG_ERROR, Prop(js.obj, "msg")), "message")
      ELSE Resolve(p, js.obj, "message")

\* History of what post p was handed: the number of events, the fragments
\* in arrival order, and whether the events so far all had more: true
Hear(p, ev) ==
  [p EXCEPT !.nEvents = @ + 1,
            !.heard = IF ev.payload /\ ev.hasResponse THEN @ \o ev.response ELSE @,
            !.broken = @ \/ ~ev.payload,
            !.final = ev.payload /\ ~ev.more]

\* handleMessage of post p on an inbound event: the post afterwards and
\* whether it wrote a getmore
handleMessage(p, conn, ev) ==
  LET heard == Hear(p, ev)
  IN  IF ~ev.payload
      THEN [post |-> Reject(cleanup(heard, conn),
                            GpgmeError(CONN_UNEXPECTED_ANSWER, Undefined),
                            "message"),
            getmore |-> FALSE]
      ELSE LET acc == [heard EXCEPT !.responseB64 = Accumulate(@, ev)]
           IN  IF ev.more
               THEN [post |-> acc, getmore |-> conn.port # "null"]
               ELSE [post |-> DecodeResponse(cleanup(acc, conn), acc.responseB64),
                     getmore |-> FALSE]

\* A handleDisconnect that removes the listener and settles nothing
handleDisconnectCleanupOnly(p, conn) == cleanup(p, conn)

\* handleDisconnect of post p; conn is the Connection after its own listener
handleDisconnect(p, conn) ==
  Reject(cleanup(p, conn), getConnectionError(conn), "disconnect")

\* A grace-period timer callback that never looks at the recorded error
graceCheckSilent(p, conn) == [p EXCEPT !.timer = FALSE]

\* The grace-period timer callback of post p
graceCheck(p, conn) ==
  LET fired == [p EXCEPT !.timer = FALSE]
  IN  IF Truthy(conn.connectionError)
      THEN Reject(cleanup(fired, conn),
                  IF conn.isNativeHostUnknown
                  THEN GpgmeError(CONN_NO_CONFIG, Undefined)
                  ELSE GpgmeError(CONN_NO_CONNECT, conn.connectionError),
                  "timer")
      ELSE fired

----------------------------------------------------------------------------
(* Operation catalog and Message builder *)

Ops ==
  {"encrypt", "decrypt", "sign", "verify", "keylist", "export", "import",
   "delete", "createkey", "version", "config_opt", "getmore"}

\* permittedOperations[op].required || []
Required(op) ==
  CASE op = "encrypt" -> <<"data", "keys">>
    [] op = "decrypt" -> <<"data">>
    [] op = "sign" -> <<"data", "keys">>
    [] op = "verify" -> <<"data">>
    [] op = "import" -> <<"data">>
    [] op = "delete" -> <<"key">>
    [] op = "createkey" -> <<"userid">>
    [] op = "config_opt" -> <<"component", "option">>
    [] OTHER -> <<>>

\* permittedOperations[op].optional || []
Optional(op) ==
  CASE op = "encrypt" ->
         <<"protocol", "signing_keys", "base64", "mime", "armor", "always-trust",
           "no-encrypt-to", "no-compress", "throw-keyids", "wrap",
           "want-address", "file_name">>
    [] op = "decrypt" -> <<"protocol", "base64">>
    [] op = "sign" -> <<"protocol", "sender", "mode", "base64">>
    [] op = "verify" -> <<"protocol", "signature", "base64">>
    [] op = "keylist" ->
         <<"keys", "protocol", "secret", "extern", "local", "sigs", "notations",
           "tofu", "ephemeral", "validate", "locate">>
    [] op = "export" ->
         <<"protocol", "keys", "armor", "extern", "minimal", "raw", "pkcs12",
           "with-sec-fprs", "secret">>
    [] op = "import" -> <<"protocol", "base64">>
    [] op = "delete" -> <<"protocol">>
    [] op = "createkey" -> <<"algo", "expires">>
    [] OTHER -> <<>>

Range(seq) == {seq[i] : i \in DOMAIN seq}

\* new Message(operation), for an operation of the catalog
NewMessage(op) ==
  [msg |-> [op |-> op, chunksize |-> DEFAULT_CHUNKSIZE],
   expected |-> Null, kind |-> op, sets |-> 0, threw |-> FALSE]

\* Message.operation: reads msg.op
operation(m) == m.msg.op

\* Whether permittedOperations[this.operation] is defined; a method that
\* reads a field of an undefined entry throws a TypeError
opDefined(m) == operation(m) \in Ops

\* setParameter: the allowed-key test
isDropped(op, key) ==
  LET allowed == Required(op) \o Optional(op)
  IN  Len(allowed) > 0 /\ key \notin Range(allowed)

\* Argument values of setParameter: null, undefined, or a value v
JsNull == [t |-> "null", v |-> 0]
JsUndefined == [t |-> "undefined", v |-> 0]
Val(v) == [t |-> "value", v |-> v]

\* setParameter: the value test
isSettable(value) == value.t # "undefined" /\ value.t # "null"

\* Message.setParameter
setParameter(m, key, value) ==
  IF ~opDefined(m) THEN [m EXCEPT !.threw = TRUE]
  ELSE IF isDropped(operation(m), key) THEN m
  ELSE IF isSettable(value)
  THEN [m EXCEPT !.msg = [k \in DOMAIN m.msg \cup {key} |->
                            IF k = key THEN value.v ELSE m.msg[k]]]
  ELSE m

\* Message.chunksize setter
setChunksize(m, value) ==
  IF value >= 10 * 1024 THEN [m EXCEPT !.msg.chunksize = value] ELSE m

\* Message.expected setter
setExpected(m, value) ==
  IF value = "uint8" \/ value = "base64" THEN [m EXCEPT !.expected = value] ELSE m

\* isComplete that never finds a parameter missing
isCompleteAlways(m) == TRUE

\* Message.isComplete (for a defined catalog entry)
isComplete(m) ==
  \A i \in DOMAIN Required(operation(m)) :
     Required(operation(m))[i] \in DOMAIN m.msg

\* Message.getMissingParams
getMissingParams(m) ==
  SelectSeq(Required(operation(m)), LAMBDA param : param \notin DOMAIN m.msg)

\* Message.toJSON: a copy of msg
toJSON(m) == m.msg

----------------------------------------------------------------------------
(* post(): Message.post and the start of Connection.post *)

NewPost(c, msg) ==
  [conn |-> c, msg |-> msg, responseB64 |-> <<>>, listening |-> FALSE,
   disc |-> FALSE, timer |-> FALSE, state |-> "pending", value |-> EmptyObj,
   code |-> "", detail |-> Undefined, missing |-> <<>>, via |-> "",
   nEvents |-> 0, heard |-> <<>>, broken |-> FALSE, final |-> FALSE,
   atWrite |-> "none"]

\* Whether both handlers of post p are registered
handlersOf(p) == IF p.listening /\ p.disc THEN "registered" ELSE "missing"

\* The guard of Connection.post testing the recorded error, not the port
postGuardByError(conn) == Truthy(conn.connectionError)

\* Connection.post: `if (!this.port)`
postGuard(conn) == conn.port = "null"

\* Connection.post on a Connection without port calling connect() again
closedPostReconnect(conn) ==
  connect([threw |-> FALSE, isError |-> FALSE, message |-> ""])

\* Connection.post on a Connection without port: this.disconnect()
closedPostCleanup(conn) == disconnect(conn)

\* Connection.post calling port.postMessage before it adds its listeners
postStartWriteFirst(c, conn, msg, writeOk) ==
  IF postGuard(conn)
  THEN LET after == closedPostCleanup(conn)
       IN  [conn |-> after,
            post |-> Reject(NewPost(c, msg), getConnectionError(after), "closed"),
            writes |-> <<>>]
  ELSE LET sent == [NewPost(c, msg) EXCEPT !.atWrite = handlersOf(NewPost(c, msg))]
           p == [sent EXCEPT !.listening = TRUE, !.disc = TRUE, !.timer = TRUE]
       IN  IF writeOk
           THEN [conn |-> conn, post |-> p, writes |-> <<msg>>]
           ELSE [conn |-> conn,
                 post |-> Reject(cleanup(p, conn),
                                 GpgmeError(CONN_NO_CONNECT, "postMessage failed"),
                                 "write"),
                 writes |-> <<>>]

\* Connection.post up to its return: the Connection and the post afterwards
\* and what was written; writeOk says whether port.postMessage returned.
\* The statements run in the code's order: the two addListener calls, the
\* setTimeout, then port.postMessage, which notes the handlers it finds
postStart(c, conn, msg, writeOk) ==
  IF postGuard(conn)
  THEN LET after == closedPostCleanup(conn)
       IN  [conn |-> after,
            post |-> Reject(NewPost(c, msg), getConnectionError(after), "closed"),
            writes |-> <<>>]
  ELSE LET listeners == [NewPost(c, msg) EXCEPT !.listening = TRUE,
                                                !.disc = TRUE]
           timed == [listeners EXCEPT !.timer = TRUE]
           p == [timed EXCEPT !.atWrite = handlersOf(timed)]
       IN  IF writeOk
           THEN [conn |-> conn, post |-> p, writes |-> <<msg>>]
           ELSE [conn |-> conn,
                 post |-> Reject(cleanup(p, conn),
                                 GpgmeError(CONN_NO_CONNECT, "postMessage failed"),
                                 "write"),
                 writes |-> <<>>]

\* Message.post before it reaches a Connection: the rejection, if any
\* (TypeError when the catalog entry is undefined, else MSG_INCOMPLETE)
refusal(m) ==
  IF ~opDefined(m)
  THEN [refused |-> TRUE, code |-> TypeError, missing |-> <<>>]
  ELSE IF ~isComplete(m)
  THEN [refused |-> TRUE, code |-> MSG_INCOMPLETE, missing |-> getMissingParams(m)]
  ELSE [refused |-> FALSE, code |-> "", missing |-> <<>>]

----------------------------------------------------------------------------
(* The environment: engine replies and their chunking *)

\* Replies the engine may produce for a request (base64 texts): valid
\* envelopes, error envelopes, JSON null, broken JSON,
\* broken base64, and nothing at all
Replies ==
  { Btoa(TextEmpty),
    Btoa(TextData),
    Btoa(TextError),
    Btoa(TextErrorNoMsg),
    Btoa(TextNull),
    Btoa(TextBroken),
    Append(SubSeq(Btoa(TextEmpty), 1, 3), BadSym),
    <<>> }

\* Sizes of the next fragment of a reply
Cuts(r) == {k \in {1, 4, Len(r)} : 1 <= k /\ k <= Len(r)}

\* The events that may carry the next part of reply r, each with what is
\* left of r afterwards
EventsFor(r) ==
  { [ev |-> NoPayload, rest |-> <<>>],
    [ev |-> Chunk(<<>>, FALSE, Len(r) > 0), rest |-> r] }
  \cup { [ev |-> Chunk(SubSeq(r, 1, k), TRUE, k < Len(r)),
          rest |-> SubSeq(r, k + 1, Len(r))] : k \in Cuts(r) }

EngineIdle == [busy |-> FALSE, rest |-> <<>>, events |-> 0, replies |-> 0]

\* Requests (not continuations) written on Connection c
Requests(c) ==
  Cardinality({i \in DOMAIN written :
                 written[i].conn = c /\ written[i].kind = "request"})

----------------------------------------------------------------------------
(* Actions *)

\* Messages a caller has built when it posts (each built by the builder's
\* own operations)
PreparedMessages ==
  { setChunksize(
      setParameter(setParameter(NewMessage("encrypt"), "data", Val("v")),
                   "keys", Val("v")),
      10 * 1024),
    setParameter(NewMessage("sign"), "data", Val("v")) }

ChkIdle == [state |-> "idle", conn |-> 0, timeout |-> 0, elapsed |-> 0]

\* No verification result is being normalized
SigsIdle ==
  [data |-> [kind |-> "flat", list |-> <<>>, good |-> <<>>, bad |-> <<>>],
   done |-> FALSE, out |-> <<>>, isValid |-> FALSE]

\* No keyring call is running
RingIdle ==
  [op |-> "idle", pc |-> "idle", arg |-> <<>>, option |-> "",
   imports |-> <<>>, rawKeys |-> <<>>, keys |-> <<>>, probe |-> "",
   listing |-> <<>>, result |-> <<>>, error |-> "", trace |-> <<>>]

\* One Connection has been constructed, and a message built
Init ==
  /\ \E outcome \in ConnectOutcomes : conns = <<connect(outcome)>>
  /\ engine = <<EngineIdle>>
  /\ posts = <<>>
  /\ written = <<>>
  /\ message \in PreparedMessages
  /\ chk = ChkIdle
  /\ sigs = SigsIdle
  /\ ring = RingIdle

\* new Connection()
NewConnection ==
  /\ Len(conns) < MaxConns
  /\ \E outcome \in ConnectOutcomes :
       conns' = Append(conns, connect(outcome))
  /\ engine' = Append(engine, EngineIdle)
  /\ UNCHANGED <<posts, written, message, chk, sigs, ring>>

Stamp(c, by, kind, msgs) ==
  [i \in DOMAIN msgs |-> [conn |-> c, by |-> by, kind |-> kind, msg |-> msgs[i]]]

\* message.post(connection?): arg = 0 is a call without connection
MsgPost(arg) ==
  /\ LET r == refusal(message)
         by == Len(posts) + 1
     IN  IF r.refused
         THEN /\ posts' = Append(posts,
                    [Reject(NewPost(0, toJSON(message)),
                            GpgmeError(r.code, Undefined), "refused")
                       EXCEPT !.missing = r.missing])
              /\ UNCHANGED <<conns, engine, written>>
         ELSE IF arg = 0
         THEN /\ Len(conns) < MaxConns
              /\ \E outcome \in ConnectOutcomes, writeOk \in BOOLEAN :
                   LET c == Len(conns) + 1
                       s == postStart(c, connect(outcome), toJSON(message), writeOk)
                   IN  /\ conns' = Append(conns, s.conn)
                       /\ engine' = Append(engine, EngineIdle)
                       /\ posts' = Append(posts, s.post)
                       /\ written' = written \o Stamp(c, by, "request", s.writes)
         ELSE /\ \E writeOk \in BOOLEAN :
                   LET s == postStart(arg, conns[arg], toJSON(message), writeOk)
                   IN  /\ conns' = [conns EXCEPT ![arg] = s.conn]
                       /\ posts' = Append(posts, s.post)
                       /\ written' = written \o Stamp(arg, by, "request", s.writes)
              /\ UNCHANGED engine
  /\ UNCHANGED <<message, chk, sigs, ring>>

\* message.post(connection) on a Connection the caller holds
Post == Len(posts) < MaxPosts /\ \E arg \in DOMAIN conns : MsgPost(arg)

\* message.post() or message.post(connection)
PostAny == Len(posts) < MaxPosts /\ \E arg \in 0..Len(conns) : MsgPost(arg)

\* message.post(connection), also while earlier posts are pending on it
PostShared == Len(posts) < MaxShared /\ \E arg \in DOMAIN conns : MsgPost(arg)

\* The getmore messages the handlers of Connection c write on event ev, in
\* listener order, from post i on
RECURSIVE Continuations(_, _, _)
Continuations(c, ev, i) ==
  IF i > Len(posts) THEN <<>>
  ELSE LET p == posts[i]
           h == handleMessage(p, conns[c], ev)
       IN  (IF p.conn = c /\ p.listening /\ h.getmore
            THEN Stamp(c, i, "getmore", <<GetMore(p.msg)>>) ELSE <<>>)
           \o Continuations(c, ev, i + 1)

\* The transport delivers one inbound event on Connection c: every
\* registered message listener runs
Deliver(c) ==
  /\ conns[c].port = "open"
  /\ engine[c].events < MaxEvents
  /\ engine[c].busy \/ engine[c].replies < Requests(c)
  /\ \E r \in (IF engine[c].busy THEN {engine[c].rest} ELSE Replies) :
       \E e \in EventsFor(r) :
         /\ engine' = [engine EXCEPT ![c] =
               [busy |-> e.ev.payload /\ e.ev.more,
                rest |-> IF e.ev.payload /\ e.ev.more THEN e.rest ELSE <<>>,
                events |-> @.events + 1,
                replies |-> IF @.busy THEN @.replies ELSE @.replies + 1]]
         /\ posts' = [i \in DOMAIN posts |->
               IF posts[i].conn = c /\ posts[i].listening
               THEN handleMessage(posts[i], conns[c], e.ev).post
               ELSE posts[i]]
         /\ written' = written \o Continuations(c, e.ev, 1)
  /\ UNCHANGED <<conns, message, chk, sigs, ring>>

\* The transport reports a disconnect on Connection c: the Connection's own
\* listener runs first, then each post's handleDisconnect
TransportDisconnect(c) ==
  /\ conns[c].port = "open"
  /\ \E lastError \in LastErrors :
       LET after == onPortDisconnect(conns[c], lastError)
       IN  /\ conns' = [conns EXCEPT ![c] = after]
           /\ posts' = [i \in DOMAIN posts |->
                 IF posts[i].conn = c /\ posts[i].disc
                 THEN handleDisconnect(posts[i], after)
                 ELSE posts[i]]
  /\ UNCHANGED <<engine, written, message, chk, sigs, ring>>

\* connection.disconnect() by the caller
Disconnect(c) ==
  /\ conns' = [conns EXCEPT ![c] = disconnect(@)]
  /\ UNCHANGED <<engine, posts, written, message, chk, sigs, ring>>

\* The grace-period timer of post i fires
GraceTimer(i) ==
  /\ posts[i].timer
  /\ posts' = [posts EXCEPT ![i] = graceCheck(@, conns[@.conn])]
  /\ UNCHANGED <<conns, engine, written, message, chk, sigs, ring>>

Arrive == \E c \in DOMAIN conns : Deliver(c)
Drop == \E c \in DOMAIN conns : TransportDisconnect(c)
Close == \E c \in DOMAIN conns : Disconnect(c)
Grace == \E i \in DOMAIN posts : GraceTimer(i)

Next == Post \/ Arrive \/ Drop \/ Close \/ Grace

Spec == Init /\ [][Next]_vars

\* The same Connection with several post() calls on it
SharedNext == PostShared \/ Arrive \/ Drop \/ Close \/ Grace

SharedSpec == Init /\ [][SharedNext]_vars

----------------------------------------------------------------------------
(* The Message builder on its own: a fresh message of any operation kind,  *)
(* then any sequence of setParameter calls and property assignments, and   *)
(* post()                                                                  *)

\* Parameter names a caller passes: the required names of every operation,
\* an optional one, the message's own fields, and a name of no operation
Keys ==
  {"data", "keys", "key", "userid", "component", "option", "protocol",
   "op", "chunksize", "bogus"}

\* Values a caller passes for a key
ValuesFor(key) ==
  CASE key = "op" -> {"decrypt", "nosuchop"}
    [] key = "chunksize" -> {0}
    [] OTHER -> {"v"}

MsgInit ==
  /\ conns = <<>>
  /\ engine = <<>>
  /\ posts = <<>>
  /\ written = <<>>
  /\ message \in {NewMessage(op) : op \in Ops}
  /\ chk = ChkIdle
  /\ sigs = SigsIdle
  /\ ring = RingIdle

Counted(m) == [m EXCEPT !.sets = @ + 1]

\* message.setParameter(key, value)
SetParameter ==
  /\ message.sets < MaxSets
  /\ \E key \in Keys :
       \E value \in {JsNull, JsUndefined} \cup {Val(v) : v \in ValuesFor(key)} :
         message' = Counted(setParameter(message, key, value))
  /\ UNCHANGED <<conns, engine, posts, written, chk, sigs, ring>>

\* message.chunksize = value
AssignChunksize ==
  /\ message.sets < MaxSets
  /\ \E value \in {0, 10 * 1024 - 1, 10 * 1024, 2 * DEFAULT_CHUNKSIZE} :
       message' = Counted(setChunksize(message, value))
  /\ UNCHANGED <<conns, engine, posts, written, chk, sigs, ring>>

\* message.expected = value
AssignExpected ==
  /\ message.sets < MaxSets
  /\ \E value \in {"uint8", "base64", Null} :
       message' = Counted(setExpected(message, value))
  /\ UNCHANGED <<conns, engine, posts, written, chk, sigs, ring>>

MsgNext == SetParameter \/ AssignChunksize \/ AssignExpected \/ PostAny

MsgSpec == MsgInit /\ [][MsgNext]_vars

----------------------------------------------------------------------------
(* checkConnection: a promise that polls check() every PollInterval ms *)

PollInterval == 25

Timeouts == {t * PollInterval : t \in 0..MaxTimeoutTicks}

\* What a check() step makes of the promise
Checked(c, elapsed, timeout) ==
  LET r == check(conns[c], elapsed, timeout)
  IN  [state |-> IF r = "poll" THEN "polling" ELSE r,
       conn |-> c, timeout |-> timeout, elapsed |-> elapsed]

\* connection.checkConnection(timeout): the first check() runs at once
StartCheck ==
  /\ chk.state # "polling"
  /\ \E c \in DOMAIN conns, timeout \in Timeouts : chk' = Checked(c, 0, timeout)
  /\ UNCHANGED <<conns, engine, posts, written, message, sigs, ring>>

\* setTimeout(check, 25) fires: one or two intervals have passed
CheckPoll ==
  /\ chk.state = "polling"
  /\ \E late \in {1, 2} :
       chk' = Checked(chk.conn, chk.elapsed + late * PollInterval, chk.timeout)
  /\ UNCHANGED <<conns, engine, posts, written, message, sigs, ring>>

CheckNext == NewConnection \/ Drop \/ Close \/ StartCheck \/ CheckPoll

CheckSpec == Init /\ [][CheckNext]_vars /\ WF_vars(CheckPoll)

----------------------------------------------------------------------------
(* The Connection's lifecycle under every call a caller can make on it:    *)
(* post(), checkConnection(), disconnect(), and the transport's disconnect *)

LifeNext == Post \/ Drop \/ Close \/ Grace \/ StartCheck \/ CheckPoll

LifeSpec == Init /\ [][LifeNext]_vars

----------------------------------------------------------------------------
(* Strings, as sequences of characters, and String.prototype.toUpperCase   *)

toUpperChar(c) ==
  CASE c = "a" -> "A" [] c = "b" -> "B" [] c = "c" -> "C"
    [] c = "d" -> "D" [] c = "e" -> "E" [] c = "f" -> "F"
    [] c = "g" -> "G"
    [] OTHER -> c

toUpperCase(str) == [i \in DOMAIN str |-> toUpperChar(str[i])]

----------------------------------------------------------------------------
(* Signature normalizer (signature.ts).                                    *)
(* A raw entry of the engine's signature list is any JSON value; t is its  *)
(* typeof, with "null" and "undefined" kept apart.  An optional boolean is *)
(* "true", "false" or "undefined"; an optional number is the number or     *)
(* NoNumber.                                                               *)

NoNumber == 0 - 1

\* value ?? false, on an optional boolean
OrFalse(value) == value = "true"

NoSummary ==
  [is |-> "undefined", valid |-> "undefined", red |-> "undefined",
   keyMissing |-> "undefined"]

NullSummary == [NoSummary EXCEPT !.is = "null"]

RawSummary(valid, red, keyMissing) ==
  [is |-> "object", valid |-> valid, red |-> red, keyMissing |-> keyMissing]

NoFingerprint == [is |-> "undefined", s |-> <<>>]

RawSignature(status_code, validity, summary, fingerprint) ==
  [t |-> "object", status_code |-> status_code, validity |-> validity,
   summary |-> summary, fingerprint |-> fingerprint]

\* An entry that is no object: null, undefined, a string, a number
NonObject(t) ==
  [t |-> t, status_code |-> NoNumber, validity |-> NoNumber,
   summary |-> NoSummary, fingerprint |-> NoFingerprint]

\* sigObject.summary?.[key] ?? false
SummaryFlag(sigObject, key) ==
  IF sigObject.summary.is = "object"
  THEN OrFalse(sigObject.summary[key])
  ELSE FALSE

\* createSignature, valid flag with status_code alone
validByStatusOnly(sigObject, summary) ==
  sigObject.status_code = 0 /\ ~summary.red

\* createSignature: the valid flag
validOf(sigObject, summary) ==
  (sigObject.status_code = 0 \/ summary.valid) /\ ~summary.red

\* createSignature
createSignature(sigObject) ==
  IF sigObject.t # "object"
  THEN [threw |-> TRUE, code |-> SIG_WRONG, info |-> <<>>]
  ELSE IF sigObject.fingerprint.is \notin {"undefined", "null", "string"}
  THEN [threw |-> TRUE, code |-> TypeError, info |-> <<>>]
  ELSE
    LET summary ==
          [valid |-> SummaryFlag(sigObject, "valid"),
           red |-> SummaryFlag(sigObject, "red"),
           keyMissing |-> SummaryFlag(sigObject, "keyMissing")]
    IN  [threw |-> FALSE, code |-> "",
         info |->
           [fingerprint |-> toUpperCase(sigObject.fingerprint.s),
            valid |-> validOf(sigObject, summary),
            summary |-> summary,
            rawSigObject |-> sigObject]]

\* collectSignatures, bad list: the valid flag from status and validity alone
badValidIgnoringKeyMissing(parsed, sig) ==
  sig.status_code = 0 /\ sig.validity = 3

\* collectSignatures, bad list: the valid flag
badValid(parsed, sig) ==
  IF parsed.summary.keyMissing \/ sig.status_code = 9 THEN FALSE
  ELSE IF sig.status_code = 0 /\ sig.validity = 3 THEN TRUE
  ELSE FALSE

\* The body of one try block of collectSignatures' loops
collectOne(signatures, sig, list) ==
  LET c == createSignature(sig)
  IN  IF c.threw THEN signatures
      ELSE Append(signatures,
             CASE list = "good" -> [c.info EXCEPT !.valid = TRUE]
               [] list = "bad" ->
                    [c.info EXCEPT !.valid = badValid(c.info, sig)]
               [] OTHER -> c.info)

\* collectSignatures that aborts the loop on the first record that throws
RECURSIVE collectListAborting(_, _, _)
collectListAborting(signatures, raws, list) ==
  IF raws = <<>> THEN signatures
  ELSE IF createSignature(Head(raws)).threw THEN signatures
  ELSE collectListAborting(collectOne(signatures, Head(raws), list),
                           Tail(raws), list)

\* One for loop of collectSignatures
RECURSIVE collectList(_, _, _)
collectList(signatures, raws, list) ==
  IF raws = <<>> THEN signatures
  ELSE collectList(collectOne(signatures, Head(raws), list),
                   Tail(raws), list)

\* collectSignatures
collectSignatures(signaturesData) ==
  IF signaturesData.kind = "flat"
  THEN collectList(<<>>, signaturesData.list, "flat")
  ELSE collectList(collectList(<<>>, signaturesData.good, "good"),
                   signaturesData.bad, "bad")

\* allSignaturesValid that is true of a result without signatures
allSignaturesValidVacuous(signatures) ==
  \A i \in DOMAIN signatures : signatures[i].valid

\* allSignaturesValid
allSignaturesValid(signatures) ==
  IF Len(signatures) = 0 THEN FALSE
  ELSE \A i \in DOMAIN signatures : signatures[i].valid

\* The signature entries an engine response can carry
StatusCodes == {0, 1, 9}
Validities == {3, 4}

RawSummaries ==
  { NoSummary,
    RawSummary("true", "undefined", "undefined"),
    RawSummary("undefined", "true", "undefined"),
    RawSummary("undefined", "undefined", "true"),
    RawSummary("true", "true", "undefined"),
    RawSummary("false", "false", "false") }

RawSignatures ==
  { RawSignature(c, v, sm, NoFingerprint) :
      c \in StatusCodes, v \in Validities, sm \in RawSummaries }
  \cup { RawSignature(NoNumber, 3, RawSummary("true", "undefined", "undefined"),
                      NoFingerprint),
         RawSignature(NoNumber, NoNumber, NoSummary, NoFingerprint),
         RawSignature(0, 3, NullSummary, NoFingerprint),
         RawSignature(0, 4, NoSummary, [is |-> "string", s |-> <<"a", "1">>]),
         RawSignature(0, 4, NoSummary, [is |-> "number", s |-> <<>>]) }
  \cup { NonObject(t) : t \in {"null", "undefined", "string", "number"} }

SigRecords(data) == Len(data.list) + Len(data.good) + Len(data.bad)

\* The verification result to normalize is a flat list, or good/bad lists
SigInit ==
  /\ conns = <<>>
  /\ engine = <<>>
  /\ posts = <<>>
  /\ written = <<>>
  /\ message = NewMessage("verify")
  /\ chk = ChkIdle
  /\ \E kind \in {"flat", "object"} :
       sigs = [SigsIdle EXCEPT !.data.kind = kind]
  /\ ring = RingIdle

\* The engine reports one more entry of the list named by field
Report(field) ==
  /\ ~sigs.done
  /\ SigRecords(sigs.data) < MaxSigs
  /\ \E raw \in RawSignatures :
       sigs' = [sigs EXCEPT !.data[field] = Append(@, raw)]
  /\ UNCHANGED <<conns, engine, posts, written, message, chk, ring>>

ReportFlat == sigs.data.kind = "flat" /\ Report("list")
ReportGood == sigs.data.kind = "object" /\ Report("good")
ReportBad == sigs.data.kind = "object" /\ Report("bad")

\* verify(): collectSignatures(info.signatures), then allSignaturesValid
Collect ==
  /\ ~sigs.done
  /\ LET signatures == collectSignatures(sigs.data)
     IN  sigs' = [sigs EXCEPT !.done = TRUE,
                              !.out = signatures,
                              !.isValid = allSignaturesValid(signatures)]
  /\ UNCHANGED <<conns, engine, posts, written, message, chk, ring>>

SigNext == ReportFlat \/ ReportGood \/ ReportBad \/ Collect

SigSpec == SigInit /\ [][SigNext]_vars

----------------------------------------------------------------------------
(* Key records (key.ts, helpers.ts) *)

FprLen == 40
KeyIdLen == 16

HexChars ==
  {"0", "1", "2", "3", "4", "5", "6", "7", "8", "9",
   "a", "b", "c", "d", "e", "f", "A", "B", "C", "D", "E", "F"}

\* The string of n characters c
Fill(c, n) == [i \in 1..n |-> c]

\* isFingerprint that accepts upper-case digits only: /^[0-9A-F]{40}$/
isUpperFingerprint(value) ==
  Len(value) = 40 /\ \A i \in DOMAIN value : toUpperChar(value[i]) = value[i]

\* isFingerprint: /^[0-9A-Fa-f]{40}$/
isFingerprint(value) ==
  Len(value) = FprLen /\ \A i \in DOMAIN value : value[i] \in HexChars

\* timestampToDate, as milliseconds since the epoch
timestampToDate(timestamp) == timestamp * 1000

\* value || dflt, on an optional boolean
OrElseTruthy(value, dflt) == value = "true" \/ dflt

\* value ?? dflt, on an optional boolean
OrElse(value, dflt) == IF value = "undefined" THEN dflt ELSE value = "true"

\* RawSubKey with every field missing
BareSubKey ==
  [timestamp |-> NoNumber, expires |-> NoNumber,
   revoked |-> "undefined", expired |-> "undefined",
   can_encrypt |-> "undefined", can_sign |-> "undefined",
   can_certify |-> "undefined", can_authenticate |-> "undefined"]

\* RawKeyData {fingerprint}: every optional field missing
BareKey(fingerprint) ==
  [given |-> TRUE, fingerprint |-> fingerprint,
   revoked |-> "undefined", expired |-> "undefined",
   disabled |-> "undefined", invalid |-> "undefined",
   can_encrypt |-> "undefined", can_sign |-> "undefined",
   can_certify |-> "undefined", can_authenticate |-> "undefined",
   secret |-> "undefined", subkeys |-> <<>>, userids |-> <<>>]

\* createKey called without data
NoData == [BareKey(<<>>) EXCEPT !.given = FALSE]

\* parseSubKey
parseSubKey(raw) ==
  [created |-> IF raw.timestamp # NoNumber /\ raw.timestamp # 0
               THEN timestampToDate(raw.timestamp) ELSE 0,
   expires |-> IF raw.expires # NoNumber /\ raw.expires > 0
               THEN timestampToDate(raw.expires) ELSE NoNumber,
   isRevoked |-> OrFalse(raw.revoked),
   isExpired |-> OrFalse(raw.expired),
   canEncrypt |-> OrFalse(raw.can_encrypt),
   canSign |-> OrFalse(raw.can_sign),
   canCertify |-> OrFalse(raw.can_certify),
   canAuthenticate |-> OrFalse(raw.can_authenticate)]

\* parseUserId
parseUserId(raw) == [uid |-> raw.uid, isRevoked |-> OrFalse(raw.revoked)]

\* createKey: the record the key is built from, taking data as it comes
keyDataUnchecked(normalizedFpr, data) ==
  IF data.given THEN data ELSE BareKey(normalizedFpr)

\* createKey: the record the key is built from
keyDataOf(normalizedFpr, data) ==
  IF data.given /\ toUpperCase(data.fingerprint) = normalizedFpr
  THEN data
  ELSE BareKey(normalizedFpr)

\* createKey
createKey(fingerprint, data) ==
  IF ~isFingerprint(fingerprint)
  THEN [threw |-> TRUE, code |-> KEY_INVALID, key |-> <<>>]
  ELSE
    LET normalizedFpr == toUpperCase(fingerprint)
        keyData == keyDataOf(normalizedFpr, data)
        subkeys == [i \in DOMAIN keyData.subkeys |->
                      parseSubKey(keyData.subkeys[i])]
        userIds == [i \in DOMAIN keyData.userids |->
                      parseUserId(keyData.userids[i])]
        hasPrimary == Len(subkeys) > 0
    IN  [threw |-> FALSE, code |-> "",
         key |->
           [fingerprint |-> normalizedFpr,
            keyId |-> SubSeq(normalizedFpr, FprLen - KeyIdLen + 1, FprLen),
            userIds |-> userIds,
            subkeys |-> subkeys,
            hasSecret |-> OrFalse(keyData.secret),
            canEncrypt |-> OrElse(keyData.can_encrypt,
                             \E i \in DOMAIN subkeys : subkeys[i].canEncrypt),
            canSign |-> OrElse(keyData.can_sign,
                          \E i \in DOMAIN subkeys : subkeys[i].canSign),
            canCertify |-> OrElse(keyData.can_certify,
                             \E i \in DOMAIN subkeys : subkeys[i].canCertify),
            canAuthenticate |-> OrElse(keyData.can_authenticate,
                      \E i \in DOMAIN subkeys : subkeys[i].canAuthenticate),
            isRevoked |-> OrFalse(keyData.revoked),
            isExpired |-> OrFalse(keyData.expired),
            isDisabled |-> OrFalse(keyData.disabled),
            isInvalid |-> OrFalse(keyData.invalid),
            created |-> IF hasPrimary THEN subkeys[1].created ELSE 0,
            expires |-> IF hasPrimary THEN subkeys[1].expires ELSE NoNumber]]

----------------------------------------------------------------------------
(* createKey on every kind of argument *)

\* Fingerprint arguments: 40 hexadecimal characters in lower, upper and
\* mixed case, 39 and 41 of them, 40 characters with one that is not
\* hexadecimal, and the empty string
Fingerprints ==
  { Fill("a", FprLen), Fill("A", FprLen), Fill("b", FprLen),
    Fill("9", FprLen), <<"a">> \o Fill("A", FprLen - 1),
    <<"0", "f">> \o Fill("E", FprLen - 2),
    Fill("a", FprLen - 1), Fill("a", FprLen + 1),
    Fill("a", FprLen - 1) \o <<"g">>, <<>> }

\* A raw key with every flag set, one sign-capable subkey and one user id
FullKey(fingerprint) ==
  [BareKey(fingerprint) EXCEPT
     !.revoked = "true", !.expired = "true", !.disabled = "true",
     !.invalid = "true", !.can_encrypt = "true", !.can_sign = "true",
     !.can_certify = "true", !.can_authenticate = "true",
     !.secret = "true",
     !.subkeys = <<[BareSubKey EXCEPT !.timestamp = 5, !.expires = 7,
                                      !.can_sign = "true"]>>,
     !.userids = <<[uid |-> "alice", revoked |-> "undefined"]>>]

\* A raw key whose capabilities come from its subkeys only
SubkeyOnly(fingerprint) ==
  [BareKey(fingerprint) EXCEPT
     !.subkeys = <<[BareSubKey EXCEPT !.can_encrypt = "true"],
                   [BareSubKey EXCEPT !.can_sign = "true"]>>]

\* A raw key whose top-level flags say false where a subkey says true
FlaggedOff(fingerprint) ==
  [SubkeyOnly(fingerprint) EXCEPT
     !.can_encrypt = "false", !.can_sign = "false",
     !.can_certify = "false", !.can_authenticate = "true"]

RawKeyArguments ==
  {NoData}
  \cup UNION { {BareKey(f), FullKey(f), SubkeyOnly(f), FlaggedOff(f)} :
               f \in {Fill("a", FprLen), Fill("A", FprLen),
                      Fill("b", FprLen), Fill("a", FprLen - 1)} }

KeyInit ==
  /\ conns = <<>>
  /\ engine = <<>>
  /\ posts = <<>>
  /\ written = <<>>
  /\ message = NewMessage("keylist")
  /\ chk = ChkIdle
  /\ sigs = SigsIdle
  /\ ring = RingIdle

\* createKey(fingerprint) or createKey(fingerprint, data)
CreateKey ==
  /\ ring.op = "idle"
  /\ \E fingerprint \in Fingerprints, data \in RawKeyArguments :
       LET c == createKey(fingerprint, data)
       IN  ring' = [ring EXCEPT
                      !.op = "createKey", !.pc = "done",
                      !.arg = [fingerprint |-> fingerprint, data |-> data],
                      !.result = c.key,
                      !.error = c.code]
  /\ UNCHANGED <<conns, engine, posts, written, message, chk, sigs>>

\* The caller drops the result
Forget ==
  /\ ring.pc = "done"
  /\ ring' = RingIdle
  /\ UNCHANGED <<conns, engine, posts, written, message, chk, sigs>>

KeyNext == CreateKey \/ Forget

KeySpec == KeyInit /\ [][KeyNext]_vars

----------------------------------------------------------------------------
(* Keyring facade (keyring.ts).  Every `await msg.post()` of a facade call  *)
(* is answered by the engine: the promise is rejected with an error code,  *)
(* or resolved with the response object.                                   *)

PostErrors == {CONN_NO_CONNECT, GNUPG_ERROR}

\* All lists of at most MaxKeys distinct members of keys
Listings(keys) ==
  UNION { {q \in [1..n -> keys] : \A i, j \in 1..n : i # j => q[i] # q[j]} :
          n \in 0..MaxKeys }

\* The sub-lists of a key listing: the keys of it that have a secret part
SecretListings(rawKeys) ==
  { LET Held(k) == k.fingerprint \in held IN SelectSeq(rawKeys, Held) :
      held \in SUBSET {rawKeys[i].fingerprint : i \in DOMAIN rawKeys} }

\* getKeys, prepareSync: key.secret = true for the keys of the secret listing
mergeSecret(rawKeys, secretKeys) ==
  [i \in DOMAIN rawKeys |->
     IF \E j \in DOMAIN secretKeys :
          toUpperCase(secretKeys[j].fingerprint)
            = toUpperCase(rawKeys[i].fingerprint)
     THEN [rawKeys[i] EXCEPT !.secret = "true"]
     ELSE rawKeys[i]]

\* getKeys: rawKeys.map(keyData => createKeyWithMethods(fingerprint, keyData))
mapCreateKey(rawKeys) ==
  IF \E i \in DOMAIN rawKeys :
       createKey(rawKeys[i].fingerprint, rawKeys[i]).threw
  THEN [threw |-> TRUE, code |-> KEY_INVALID, keys |-> <<>>]
  ELSE [threw |-> FALSE, code |-> "",
        keys |-> [i \in DOMAIN rawKeys |->
                    createKey(rawKeys[i].fingerprint, rawKeys[i]).key]]

\* A facade call ends by throwing code
Fail(r, code) == [r EXCEPT !.pc = "done", !.error = code]

\* A facade call ends by returning result
Return(r, result) == [r EXCEPT !.pc = "done", !.result = result]

\* A facade call posts the message of operation op and awaits the answer
Await(r, pc, op) == [r EXCEPT !.pc = pc, !.trace = Append(@, op)]

\* (n & 2^k) === 2^k, for a status that is a non-negative integer
Bit(n, k) == (n \div (2 ^ k)) % 2 = 1

\* importKey: the status of an import entry
statusOf(status) ==
  IF status = 0 THEN "nochange"
  ELSE IF Bit(status, 0) THEN "newkey"
  ELSE "change"

\* importKey: what changed
changesOf(status) ==
  [userId |-> Bit(status, 1),
   signature |-> Bit(status, 2),
   subkey |-> Bit(status, 3)]

\* importKey: imp.fingerprint.toUpperCase() throws on a missing fingerprint
importLoopThrows(imports) ==
  \E i \in DOMAIN imports : imports[i].fingerprint.is # "string"

\* importKey: fingerprints
fingerprintsOf(imports) ==
  [i \in DOMAIN imports |-> toUpperCase(imports[i].fingerprint.s)]

\* importInfos.has(fpr)
hasInfo(imports, fpr) ==
  \E i \in DOMAIN imports : fingerprintsOf(imports)[i] = fpr

\* importInfos.get(fpr): Map.set replaces the entry of an earlier import
\* with the same fingerprint
infoOf(imports, fpr) ==
  LET Same(i) == fingerprintsOf(imports)[i] = fpr
      last == CHOOSE i \in DOMAIN imports :
                Same(i) /\ \A j \in DOMAIN imports : Same(j) => j <= i
  IN  [status |-> statusOf(imports[last].status),
       changes |-> changesOf(imports[last].status)]

ImportedKey(imports, key) ==
  [key |-> key,
   status |-> infoOf(imports, key.fingerprint).status,
   changes |-> infoOf(imports, key.fingerprint).changes]

\* importKey without prepareSync: createKey(fpr) for every fingerprint
importedDirect(imports) ==
  LET fingerprints == fingerprintsOf(imports)
  IN  IF \E i \in DOMAIN fingerprints : createKey(fingerprints[i], NoData).threw
      THEN [threw |-> TRUE, code |-> KEY_INVALID, Keys |-> <<>>]
      ELSE [threw |-> FALSE, code |-> "",
            Keys |-> [i \in DOMAIN fingerprints |->
                        ImportedKey(imports,
                                    createKey(fingerprints[i], NoData).key)]]

\* importKey with prepareSync: the keys getKeys returned that were imported
importedSynced(imports, keys) ==
  LET Known(key) == hasInfo(imports, key.fingerprint)
      known == SelectSeq(keys, Known)
  IN  [i \in DOMAIN known |-> ImportedKey(imports, known[i])]

\* importKey, from the answer to the import message on
importContinue(r) ==
  IF r.imports = <<>> THEN Return(r, <<>>)
  ELSE IF importLoopThrows(r.imports) THEN Fail(r, TypeError)
  ELSE IF r.arg.prepareSync THEN Await(r, "keylist", "keylist")
  ELSE LET d == importedDirect(r.imports)
       IN  IF d.threw THEN Fail(r, d.code) ELSE Return(r, d.Keys)

\* getDefaultKey: a key of the secret listing that may be the default
\* whether it can sign or not
qualifiesWithoutSign(keyData) ==
  /\ keyData.invalid # "true"
  /\ keyData.expired # "true"
  /\ keyData.revoked # "true"

\* getDefaultKey: the test of the scan
qualifies(keyData) ==
  /\ keyData.invalid # "true"
  /\ keyData.expired # "true"
  /\ keyData.revoked # "true"
  /\ keyData.can_sign = "true"

\* getDefaultKey: the scan of the secret listing
scan(rawKeys) ==
  IF \A i \in DOMAIN rawKeys : ~qualifies(rawKeys[i])
  THEN [threw |-> TRUE, code |-> KEY_NO_DEFAULT, key |-> <<>>]
  ELSE LET first == CHOOSE i \in DOMAIN rawKeys :
                      /\ qualifies(rawKeys[i])
                      /\ \A j \in 1..(i - 1) : ~qualifies(rawKeys[j])
       IN  createKey(rawKeys[first].fingerprint,
                     [rawKeys[first] EXCEPT !.secret = "true"])

\* getDefaultKey: the scan's keylist message is posted
startScan(r) == Await(r, "scan", "keylist-scan")

\* getDefaultKey: the probe's test that takes the first of several keys
probeAcceptsSeveral(keys) == Len(keys) >= 1

\* getDefaultKey: the probe's test, keys.length === 1
probeAccepts(keys) == Len(keys) = 1

\* The continuation of `await this.getKeys(...)`; g is what getKeys
\* returned or threw
afterGetKeys(r, g) ==
  IF r.op = "importKey"
  THEN IF g.threw THEN Fail(r, g.code)
       ELSE Return([r EXCEPT !.keys = g.keys],
                   importedSynced(r.imports, g.keys))
  ELSE IF r.op \in {"generateKey", "getKeys"}
  THEN IF g.threw THEN Fail(r, g.code)
       ELSE Return([r EXCEPT !.keys = g.keys], g.keys)
  ELSE IF g.threw THEN startScan([r EXCEPT !.probe = "getKeys failed"])
       ELSE IF probeAccepts(g.keys)
       THEN Return([r EXCEPT !.probe = "resolved", !.keys = g.keys],
                   g.keys[1])
       ELSE startScan([r EXCEPT !.probe = "resolved", !.keys = g.keys])

\* The keys of the engine's keyring, as its keylist reports them
KeyA == [BareKey(Fill("A", FprLen)) EXCEPT !.can_sign = "true"]
KeyB == [BareKey(Fill("B", FprLen)) EXCEPT !.can_sign = "false",
                                          !.can_encrypt = "true"]
KeyC == [BareKey(Fill("C", FprLen)) EXCEPT !.can_sign = "true",
                                          !.revoked = "true"]
KeyD == [BareKey(Fill("D", FprLen)) EXCEPT !.can_sign = "true",
                                          !.expired = "true"]
KeyE == [BareKey(Fill("E", FprLen)) EXCEPT !.can_sign = "true",
                                          !.invalid = "true"]
KeyF == [BareKey(Fill("F", FprLen)) EXCEPT !.can_sign = "true",
                                          !.revoked = "false"]

\* A key the engine reports with its secret part
KeyS == [BareKey(Fill("5", FprLen)) EXCEPT !.can_sign = "true",
                                          !.secret = "true"]

EngineKeys == {KeyA, KeyB, KeyC, KeyD, KeyE, KeyF}

\* The entries an import response can carry: a fingerprint in lower or
\* upper case, one of 39 characters, or none, and a status bitmask
ImportStatuses == {0, 1, 2, 3, 4, 8}

ImportEntries ==
  { [fingerprint |-> [is |-> "string", s |-> f], status |-> st] :
      f \in {Fill("a", FprLen), Fill("B", FprLen), Fill("a", FprLen - 1)},
      st \in ImportStatuses }
  \cup { [fingerprint |-> NoFingerprint, status |-> 1] }

ImportLists == UNION { [1..n -> ImportEntries] : n \in 0..MaxImports }

\* The keys a keylist of the running call can report: for importKey the keys
\* named by the pattern and one more, for getDefaultKey any key
Candidates(r) ==
  IF r.op = "importKey"
  THEN { k \in {KeyA, KeyB} : hasInfo(r.imports, k.fingerprint) } \cup {KeyF}
  ELSE IF r.op = "getKeys" THEN {KeyA, KeyB, KeyS}
  ELSE EngineKeys

\* getKeys: the prepareSync option of the running getKeys call; importKey,
\* getDefaultKey and generateKey call getKeys with prepareSync: true
prepareSyncOf(r) == r.op # "getKeys" \/ r.arg.prepareSync

\* importKey(armored, prepareSync)
ImportKey ==
  /\ ring.op = "idle"
  /\ \E armored \in {"", "armor"}, prepareSync \in BOOLEAN :
       LET r == [ring EXCEPT !.op = "importKey",
                             !.arg = [armored |-> armored,
                                      prepareSync |-> prepareSync]]
       IN  ring' = IF armored = "" THEN Fail(r, PARAM_WRONG)
                   ELSE Await(r, "import", "import")
  /\ UNCHANGED <<conns, engine, posts, written, message, chk, sigs>>

\* importKey: the import message is answered
ImportReply ==
  /\ ring.pc = "import"
  /\ \/ \E code \in PostErrors : ring' = Fail(ring, code)
     \/ \E imports \in ImportLists :
          ring' = importContinue([ring EXCEPT !.imports = imports])
  /\ UNCHANGED <<conns, engine, posts, written, message, chk, sigs>>

\* getKeys: the keylist message is answered
KeylistReply ==
  /\ ring.pc = "keylist"
  /\ \/ \E code \in PostErrors :
          ring' = afterGetKeys(ring, [threw |-> TRUE, code |-> code,
                                      keys |-> <<>>])
     \/ \E rawKeys \in Listings(Candidates(ring)) :
          ring' = IF rawKeys = <<>>
                  THEN afterGetKeys(ring, [threw |-> FALSE, code |-> "",
                                           keys |-> <<>>])
                  ELSE IF prepareSyncOf(ring)
                  THEN Await([ring EXCEPT !.rawKeys = rawKeys],
                             "secretlist", "keylist-secret")
                  ELSE afterGetKeys([ring EXCEPT !.rawKeys = rawKeys],
                                    mapCreateKey(rawKeys))
  /\ UNCHANGED <<conns, engine, posts, written, message, chk, sigs>>

\* getKeys, prepareSync: the secret keylist message is answered
SecretReply ==
  /\ ring.pc = "secretlist"
  /\ \/ \E code \in PostErrors :
          ring' = afterGetKeys(ring, [threw |-> TRUE, code |-> code,
                                      keys |-> <<>>])
     \/ \E secretKeys \in SecretListings(ring.rawKeys) :
          ring' = afterGetKeys(ring,
                    mapCreateKey(mergeSecret(ring.rawKeys, secretKeys)))
  /\ UNCHANGED <<conns, engine, posts, written, message, chk, sigs>>

\* getKeys(options): the options read are pattern, prepareSync and search
GetKeys ==
  /\ ring.op = "idle"
  /\ \E options \in [secret : BOOLEAN, prepareSync : BOOLEAN,
                      search : BOOLEAN] :
       ring' = Await([ring EXCEPT !.op = "getKeys", !.arg = options],
                     "keylist", IF options.search THEN "keylist-locate"
                                ELSE "keylist")
  /\ UNCHANGED <<conns, engine, posts, written, message, chk, sigs>>

GetKeysNext == GetKeys \/ KeylistReply \/ SecretReply

GetKeysSpec == KeyInit /\ [][GetKeysNext]_vars

ImportNext == ImportKey \/ ImportReply \/ KeylistReply \/ SecretReply

ImportSpec == KeyInit /\ [][ImportNext]_vars

\* What the default-key option of the engine's configuration holds
ConfigOptions == {Undefined, "", "alice"}

\* getDefaultKey()
GetDefaultKey ==
  /\ ring.op = "idle"
  /\ ring' = Await([ring EXCEPT !.op = "getDefaultKey"],
                   "config", "config_opt")
  /\ UNCHANGED <<conns, engine, posts, written, message, chk, sigs>>

\* getDefaultKey: the config_opt message is answered
ConfigReply ==
  /\ ring.pc = "config"
  /\ \/ \E code \in PostErrors :
          ring' = startScan([ring EXCEPT !.probe = "config failed"])
     \/ \E option \in ConfigOptions :
          ring' = IF Truthy(option)
                  THEN Await([ring EXCEPT !.option = option],
                             "keylist", "keylist")
                  ELSE startScan([ring EXCEPT !.option = option,
                                              !.probe = "unset"])
  /\ UNCHANGED <<conns, engine, posts, written, message, chk, sigs>>

\* getDefaultKey: the scan's secret keylist message is answered
ScanReply ==
  /\ ring.pc = "scan"
  /\ \/ \E code \in PostErrors : ring' = Fail(ring, code)
     \/ \E rawKeys \in Listings(EngineKeys) :
          LET r == [ring EXCEPT !.listing = rawKeys]
              c == scan(rawKeys)
          IN  ring' = IF c.threw THEN Fail(r, c.code) ELSE Return(r, c.key)
  /\ UNCHANGED <<conns, engine, posts, written, message, chk, sigs>>

DefaultKeyNext ==
  GetDefaultKey \/ ConfigReply \/ KeylistReply \/ SecretReply \/ ScanReply

DefaultKeySpec == KeyInit /\ [][DefaultKeyNext]_vars

----------------------------------------------------------------------------
(* generateKey (keyring.ts).  A number argument is held as its double, so   *)
(* that a half is a number that is not an integer.                         *)

KEY_UNSUPP_ALGO == "KEY_UNSUPP_ALGO"

supportedKeyAlgos ==
  <<"default", "future-default",
    "rsa", "rsa2048", "rsa3072", "rsa4096",
    "dsa", "dsa2048", "dsa3072", "dsa4096",
    "elg", "elg2048", "elg3072", "elg4096",
    "ed25519", "cv25519",
    "brainpoolP256r1", "brainpoolP384r1", "brainpoolP512r1",
    "NIST P-256", "NIST P-384", "NIST P-521">>

\* A number argument: halves / 2
Num(halves) == [is |-> "number", halves |-> halves]

\* An argument that is a string, or is not given
NotGiven == [is |-> "undefined", halves |-> 0]
NumericString == [is |-> "string", halves |-> 0]

\* `const { userId, algo = 'default', expires = 0 } = options`
algoOrDefault(algo) == IF algo = Undefined THEN "default" ELSE algo
expiresOrDefault(expires) == IF expires.is = "undefined" THEN Num(0) ELSE expires

\* Number.isInteger(expires)
isInteger(expires) == expires.is = "number" /\ expires.halves % 2 = 0

\* generateKey's test of the algorithm that rejects nothing
algoRejectedNever(algo) == FALSE

\* generateKey: algo && !supportedKeyAlgos.includes(algo)
algoRejected(algo) == Truthy(algo) /\ algo \notin Range(supportedKeyAlgos)

\* generateKey: !Number.isInteger(expires) || expires < 0
expiresRejected(expires) == ~isInteger(expires) \/ expires.halves < 0

\* generateKey, up to `await msg.post()`
generateKey(r, userId, algo, expires) ==
  IF ~Truthy(userId) THEN Fail(r, PARAM_WRONG)
  ELSE IF algoRejected(algoOrDefault(algo)) THEN Fail(r, KEY_UNSUPP_ALGO)
  ELSE IF expiresRejected(expiresOrDefault(expires)) THEN Fail(r, PARAM_WRONG)
  ELSE Await(r, "createkey", "createkey")

\* generateKey, after the createkey message was answered with fingerprint
generateKeyContinue(r, fingerprint) ==
  IF fingerprint.is # "string" \/ fingerprint.s = <<>>
  THEN Fail(r, GNUPG_ERROR)
  ELSE Await([r EXCEPT !.probe = "created"], "keylist", "keylist")

UserIds == {Undefined, "", "alice"}
Algos == {Undefined, Null, "", "default", "ed25519", "NIST P-256",
          "rsa1024", "RSA", "ED25519"}
ExpiresValues == {NotGiven, NumericString, Num(0), Num(2), Num(1), Num(0 - 1),
                  Num(0 - 2)}

\* generateKey(options)
GenerateKey ==
  /\ ring.op = "idle"
  /\ \E userId \in UserIds, algo \in Algos, expires \in ExpiresValues :
       ring' = generateKey([ring EXCEPT !.op = "generateKey",
                                        !.arg = [userId |-> userId,
                                                 algo |-> algo,
                                                 expires |-> expires]],
                           userId, algo, expires)
  /\ UNCHANGED <<conns, engine, posts, written, message, chk, sigs>>

\* generateKey: the createkey message is answered
CreatekeyReply ==
  /\ ring.pc = "createkey"
  /\ \/ \E code \in PostErrors : ring' = Fail(ring, code)
     \/ \E fingerprint \in {NoFingerprint, [is |-> "string", s |-> <<>>],
                              [is |-> "string", s |-> Fill("A", FprLen)]} :
          ring' = generateKeyContinue(ring, fingerprint)
  /\ UNCHANGED <<conns, engine, posts, written, message, chk, sigs>>

GenerateNext == GenerateKey \/ CreatekeyReply \/ KeylistReply \/ SecretReply

GenerateSpec == KeyInit /\ [][GenerateNext]_vars

----------------------------------------------------------------------------
(* Keys with methods (key.ts).  An object is a function from its property  *)
(* names; the one instance a call works on is held in ring.keys[1], and a  *)
(* reference to it is [ref |-> 1].                                         *)

KEY_NOKEY == "KEY_NOKEY"

KeyMethods == {"getArmor", "delete", "refresh"}

\* Object.assign that copies nothing
assignNothing(target, source) == target

\* Object.assign(target, source), and the spread {...target, ...source}
assign(target, source) ==
  [p \in DOMAIN target \cup DOMAIN source |->
     IF p \in DOMAIN source THEN source[p] ELSE target[p]]

\* createKeyWithMethods(fingerprint, data)
createKeyWithMethods(fingerprint, data) ==
  LET c == createKey(fingerprint, data)
  IN  IF c.threw THEN [threw |-> TRUE, code |-> c.code, key |-> <<>>]
      ELSE [threw |-> FALSE, code |-> "",
            key |-> assign(c.key, [m \in KeyMethods |-> "function"])]

\* refresh(), after the keylist message was answered with keys: this is
\* the instance in ring.keys[1]
refresh(r, keys) ==
  LET this == r.keys[1]
  IN  IF ~keys.given \/ Len(keys.list) = 0 THEN Fail(r, KEY_NOKEY)
      ELSE LET refreshedKey == createKey(this.fingerprint, keys.list[1])
           IN  IF refreshedKey.threw THEN Fail(r, refreshedKey.code)
               ELSE Return([r EXCEPT !.keys = <<assign(this, refreshedKey.key)>>],
                           [ref |-> 1])

\* What a keylist for one fingerprint can answer: no `keys` member, no key,
\* the key in one of its states, or first a key of another fingerprint
RefreshAnswers ==
  { [given |-> FALSE, list |-> <<>>] }
  \cup { [given |-> TRUE, list |-> l] :
           l \in {<<>>, <<FullKey(Fill("B", FprLen)), FullKey(Fill("A", FprLen))>>}
                 \cup { <<k>> : k \in UNION {
                           {BareKey(f), FullKey(f), SubkeyOnly(f)} :
                           f \in {Fill("a", FprLen), Fill("A", FprLen),
                                  Fill("B", FprLen)} } } }

\* getKeys({prepareSync: true}) or deleteKey made an instance
CreateKeyWithMethods ==
  /\ ring.op = "idle"
  /\ \E fingerprint \in {Fill("a", FprLen), Fill("A", FprLen),
                         Fill("B", FprLen), Fill("a", FprLen - 1)},
        data \in {NoData, BareKey(Fill("A", FprLen)),
                  FullKey(Fill("a", FprLen)), SubkeyOnly(Fill("A", FprLen))} :
       LET c == createKeyWithMethods(fingerprint, data)
       IN  ring' = IF c.threw
                   THEN Fail([ring EXCEPT !.op = "createKeyWithMethods"],
                             c.code)
                   ELSE [ring EXCEPT !.op = "key", !.pc = "held",
                                     !.keys = <<c.key>>]
  /\ UNCHANGED <<conns, engine, posts, written, message, chk, sigs>>

\* key.refresh(): the keylist message is posted
Refresh ==
  /\ ring.pc = "held"
  /\ ring' = Await([ring EXCEPT !.op = "refresh", !.arg = ring.keys[1]],
                   "refresh", "keylist")
  /\ UNCHANGED <<conns, engine, posts, written, message, chk, sigs>>

\* refresh: the keylist message is answered
RefreshReply ==
  /\ ring.pc = "refresh"
  /\ \/ \E code \in PostErrors :
          ring' = Fail([ring EXCEPT !.probe = "failed"], code)
     \/ \E keys \in RefreshAnswers :
          ring' = refresh([ring EXCEPT !.probe = "answered",
                                       !.listing = keys.list], keys)
  /\ UNCHANGED <<conns, engine, posts, written, message, chk, sigs>>

\* The caller goes on with the instance
Keep ==
  /\ ring.op = "refresh" /\ ring.pc = "done"
  /\ Len(ring.trace) < MaxRefreshes
  /\ ring' = [ring EXCEPT !.op = "key", !.pc = "held", !.error = "",
                          !.result = <<>>]
  /\ UNCHANGED <<conns, engine, posts, written, message, chk, sigs>>

RefreshNext == CreateKeyWithMethods \/ Refresh \/ RefreshReply \/ Keep

RefreshSpec == KeyInit /\ [][RefreshNext]_vars

----------------------------------------------------------------------------
(* encrypt and decrypt (gpgme.ts), with the text conversions of helpers.ts. *)
(* A string is the sequence of its characters' code points; the string     *)
(* atob returns has one character per byte.                                *)

MSG_EMPTY == "MSG_EMPTY"
MSG_NO_KEYS == "MSG_NO_KEYS"
InvalidCharacterError == "InvalidCharacterError"

\* The replacement character U+FFFD
Replacement == 65533

\* TextEncoder: the UTF-8 bytes of one code point
utf8Char(cp) ==
  IF cp < 128 THEN <<cp>>
  ELSE IF cp < 2048 THEN <<192 + (cp \div 64), 128 + (cp % 64)>>
  ELSE IF cp < 65536
  THEN <<224 + (cp \div 4096), 128 + ((cp \div 64) % 64), 128 + (cp % 64)>>
  ELSE <<240 + (cp \div 262144), 128 + ((cp \div 4096) % 64),
         128 + ((cp \div 64) % 64), 128 + (cp % 64)>>

RECURSIVE utf8(_)
\* TextEncoder.encode(text)
utf8(text) ==
  IF text = <<>> THEN <<>> ELSE utf8Char(Head(text)) \o utf8(Tail(text))

\* A continuation byte 10xxxxxx
isContinuation(b) == b >= 128 /\ b < 192

RECURSIVE uint8ArrayToString(_)
\* new TextDecoder().decode(bytes): UTF-8, a malformed byte becomes U+FFFD
uint8ArrayToString(bytes) ==
  LET n == Len(bytes)
      b1 == bytes[1]
      need == IF b1 < 128 THEN 1
              ELSE IF b1 >= 194 /\ b1 < 224 THEN 2
              ELSE IF b1 >= 224 /\ b1 < 240 THEN 3
              ELSE IF b1 >= 240 /\ b1 < 245 THEN 4
              ELSE 0
      wellFormed == /\ need > 0 /\ need <= n
                    /\ \A k \in 2..need : isContinuation(bytes[k])
      lead == CASE need = 1 -> b1
                [] need = 2 -> b1 - 192
                [] need = 3 -> b1 - 224
                [] OTHER -> b1 - 240
      Fold[k \in 1..4] ==
        IF k = 1 THEN lead ELSE (Fold[k - 1] * 64) + (bytes[k] - 128)
  IN  IF n = 0 THEN <<>>
      ELSE IF wellFormed
      THEN <<Fold[need]>> \o uint8ArrayToString(SubSeq(bytes, need + 1, n))
      ELSE <<Replacement>> \o uint8ArrayToString(Tail(bytes))

\* The character of a base64 symbol: A-Z a-z 0-9 + / =
charOf(sym) ==
  IF sym < 26 THEN 65 + sym
  ELSE IF sym < 52 THEN 97 + (sym - 26)
  ELSE IF sym < 62 THEN 48 + (sym - 52)
  ELSE IF sym = 62 THEN 43
  ELSE IF sym = 63 THEN 47
  ELSE 61

\* The base64 symbol of a character
symOf(c) ==
  IF c >= 65 /\ c <= 90 THEN c - 65
  ELSE IF c >= 97 /\ c <= 122 THEN c - 97 + 26
  ELSE IF c >= 48 /\ c <= 57 THEN c - 48 + 52
  ELSE IF c = 43 THEN 62
  ELSE IF c = 47 THEN 63
  ELSE IF c = 61 THEN PadSym
  ELSE BadSym

\* base64ToUint8Array(base64): atob, then the char code of every character
base64ToUint8Array(base64) == Atob([i \in DOMAIN base64 |-> symOf(base64[i])])

\* base64ToString(base64): [threw, text]
base64ToString(base64) ==
  LET bin == base64ToUint8Array(base64)
  IN  IF ~bin.ok THEN [threw |-> TRUE, text |-> <<>>]
      ELSE [threw |-> FALSE, text |-> uint8ArrayToString(bin.bytes)]

\* encrypt and decrypt, after `await msg.post()`: the data of the result,
\* decoded when the engine flagged it base64; [threw, text]
rawDataOf(result, expected) ==
  IF result.base64 /\ result.data # <<>> /\ expected # "base64"
  THEN base64ToString(result.data)
  ELSE [threw |-> FALSE, text |-> result.data]

\* The JSON text of a result envelope (ASCII bytes around the data):
\* {"data":"  ...  "}   or   {"data":"  ...  ","base64":true}
EnvelopeHead == <<123, 34, 100, 97, 116, 97, 34, 58, 34>>
EnvelopeTail == <<34, 125>>
EnvelopeTailBase64 ==
  <<34, 44, 34, 98, 97, 115, 101, 54, 52, 34, 58, 116, 114, 117, 101, 125>>

\* JSON.parse on the string atob returned, for the envelopes above:
\* every character of the data, a byte of the answer, is taken as it is
parseEnvelope(chars) ==
  LET n == Len(chars)
      h == Len(EnvelopeHead)
      EndsWith(tail) ==
        /\ n >= h + Len(tail)
        /\ SubSeq(chars, 1, h) = EnvelopeHead
        /\ SubSeq(chars, n - Len(tail) + 1, n) = tail
      Body(tail) == SubSeq(chars, h + 1, n - Len(tail))
      Plain(body) == \A i \in DOMAIN body : body[i] >= 32 /\ body[i] \notin {34, 92}
  IN  IF EndsWith(EnvelopeTailBase64) /\ Plain(Body(EnvelopeTailBase64))
      THEN [ok |-> TRUE, obj |-> [data |-> Body(EnvelopeTailBase64),
                                  base64 |-> TRUE]]
      ELSE IF EndsWith(EnvelopeTail) /\ Plain(Body(EnvelopeTail))
      THEN [ok |-> TRUE, obj |-> [data |-> Body(EnvelopeTail),
                                  base64 |-> FALSE]]
      ELSE [ok |-> FALSE, obj |-> [data |-> <<>>, base64 |-> FALSE]]

\* Connection.post's decoding of the complete response:
\* JSON.parse(atob(responseB64)); [threw, code, obj]
decodeEnvelope(responseB64) ==
  LET bin == Atob(responseB64)
      js == parseEnvelope(bin.bytes)
  IN  IF ~bin.ok \/ ~js.ok
      THEN [threw |-> TRUE, code |-> CONN_UNEXPECTED_ANSWER, obj |-> js.obj]
      ELSE [threw |-> FALSE, code |-> "", obj |-> js.obj]

\* The engine that hands back what it was given: its answer to a request is
\* the request's data, the JSON text of the envelope sent as UTF-8 bytes in
\* base64; in the flagged form the data is itself base64 of its UTF-8 bytes
stubResponse(request, form) ==
  IF form = "flagged"
  THEN LET b64 == Btoa(utf8(request.data))
       IN  Btoa(EnvelopeHead \o [i \in DOMAIN b64 |-> charOf(b64[i])]
                \o EnvelopeTailBase64)
  ELSE Btoa(EnvelopeHead \o utf8(request.data) \o EnvelopeTail)

\* toKeyIdArray(keys), keys an array of strings
toKeyIdArray(keys) ==
  LET kept == SelectSeq(keys, LAMBDA key : Len(key) > 0)
  IN  [i \in DOMAIN kept |-> toUpperCase(kept[i])]

\* encrypt({data, publicKeys}), up to `await msg.post()`
encrypt(r, data, publicKeys) ==
  IF data = <<>> THEN Fail(r, MSG_EMPTY)
  ELSE IF Len(toKeyIdArray(publicKeys)) = 0 THEN Fail(r, MSG_NO_KEYS)
  ELSE Await([r EXCEPT !.imports = data], "encrypt", "encrypt")

\* decrypt({data}), up to `await msg.post()`
decrypt(r, data) ==
  IF data = <<>> THEN Fail(r, MSG_EMPTY)
  ELSE Await([r EXCEPT !.imports = data], "decrypt", "decrypt")

\* encrypt and decrypt, from the settling of `await msg.post()` on
afterPost(r, answer) ==
  IF answer.threw THEN Fail(r, answer.code)
  ELSE LET rawData == rawDataOf(answer.obj, Null)
       IN  IF rawData.threw THEN Fail(r, InvalidCharacterError)
           ELSE IF r.pc = "encrypt"
           THEN [r EXCEPT !.pc = "encrypted", !.listing = rawData.text]
           ELSE Return(r, rawData.text)

\* Texts of at most MaxText characters: A, a-umlaut, a kanji, an emoji, '='
TextChars == {65, 228, 26085, 128272, 61}
Texts == UNION { [1..n -> TextChars] : n \in 0..MaxText }

\* encrypt({data, publicKeys})
Encrypt ==
  /\ ring.op = "idle"
  /\ \E data \in Texts,
        publicKeys \in {<<>>, << <<>> >>, <<Fill("a", FprLen)>>} :
       ring' = encrypt([ring EXCEPT !.op = "roundtrip",
                                    !.arg = [data |-> data,
                                             publicKeys |-> publicKeys]],
                       data, publicKeys)
  /\ UNCHANGED <<conns, engine, posts, written, message, chk, sigs>>

\* The engine answers the message in flight
StubReply ==
  /\ ring.pc \in {"encrypt", "decrypt"}
  /\ \E form \in {"plain", "flagged"} :
       ring' = afterPost([ring EXCEPT !.probe = form],
                         decodeEnvelope(
                           stubResponse([data |-> ring.imports], form)))
  /\ UNCHANGED <<conns, engine, posts, written, message, chk, sigs>>

\* decrypt({data}) of what encrypt returned
Decrypt ==
  /\ ring.pc = "encrypted"
  /\ ring' = decrypt(ring, ring.listing)
  /\ UNCHANGED <<conns, engine, posts, written, message, chk, sigs>>

RoundTripNext == Encrypt \/ StubReply \/ Decrypt

RoundTripSpec == KeyInit /\ [][RoundTripNext]_vars

----------------------------------------------------------------------------
(* Signing through the page library (slayops index.ts), the extension's    *)
(* background handler (chrome background.ts) and GpgME.sign (gpgme.ts).    *)

NotConnected == "Not connected"

\* A key argument that is not given
NoKey == [is |-> "undefined", s |-> <<>>]

\* SlayOps.sign: the parameters sent to the extension with action 'sign'
signParams(data, options) ==
  [data |-> data,
   mode |-> IF Truthy(options.mode) THEN options.mode ELSE "clearsign",
   keys |-> IF options.signingKey.is = "string" /\ options.signingKey.s # <<>>
            THEN <<options.signingKey.s>> ELSE <<>>]

\* background handleMessage, case 'sign': the options handed to GpgME.sign
signOpts(request) ==
  [data |-> request.data,
   mode |-> IF request.mode = "detached" THEN "detached" ELSE "clearsign",
   keys |-> request.keys]

\* GpgME.sign(options), up to `await msg.post()`
sign(r, options) ==
  IF options.data = <<>> THEN Fail(r, MSG_EMPTY)
  ELSE IF Len(toKeyIdArray(options.keys)) = 0 THEN Fail(r, MSG_NO_KEYS)
  ELSE Await([r EXCEPT !.option = options.mode, !.imports = options.data],
             "sign", "sign")

\* GpgME.sign, after `await msg.post()`: [threw, result]
signResult(mode, data, result) ==
  LET rawData == rawDataOf(result, Null)
  IN  IF rawData.threw
      THEN [threw |-> TRUE, data |-> <<>>, signature |-> <<>>]
      ELSE IF mode = "clearsign"
      THEN [threw |-> FALSE, data |-> rawData.text, signature |-> <<>>]
      ELSE [threw |-> FALSE, data |-> data, signature |-> rawData.text]

\* SlayOps.sign: what the promise resolves to, response.data being an object
signResolved(result) == result.data

\* What the engine signs with: a clearsigned text or a signature, as text or
\* flagged base64
SignOutputs ==
  { [data |-> d, base64 |-> FALSE] : d \in {<<>>, <<83>>, <<83, 65>>} }
  \cup { [data |-> d, base64 |-> TRUE] : d \in {<<85, 119, 61, 61>>, <<85>>} }

\* pgp.sign(data, options), the extension connected to the engine or not
SlaySign ==
  /\ ring.op = "idle"
  /\ \E data \in {<<>>, <<65>>, <<65, 66>>},
        signingKey \in {NoKey, [is |-> "string", s |-> <<>>],
                        [is |-> "string", s |-> Fill("a", FprLen)],
                        [is |-> "string", s |-> Fill("B", KeyIdLen)]},
        mode \in {Undefined, "clearsign", "detached"},
        connected \in BOOLEAN :
       LET options == [signingKey |-> signingKey, mode |-> mode]
           r == [ring EXCEPT !.op = "sign",
                             !.arg = [data |-> data, options |-> options,
                                      connected |-> connected]]
       IN  ring' = IF ~connected THEN Fail(r, NotConnected)
                   ELSE sign(r, signOpts(signParams(data, options)))
  /\ UNCHANGED <<conns, engine, posts, written, message, chk, sigs>>

\* The sign message is answered
SignReply ==
  /\ ring.pc = "sign"
  /\ \/ \E code \in PostErrors : ring' = Fail(ring, code)
     \/ \E output \in SignOutputs :
          LET s == signResult(ring.option, ring.imports, output)
              r == [ring EXCEPT !.listing = output.data,
                                !.probe = IF output.base64 THEN "flagged"
                                          ELSE "plain"]
          IN  ring' = IF s.threw THEN Fail(r, InvalidCharacterError)
                      ELSE Return(r, signResolved(s))
  /\ UNCHANGED <<conns, engine, posts, written, message, chk, sigs>>

SignNext == SlaySign \/ SignReply

SignSpec == KeyInit /\ [][SignNext]_vars

----------------------------------------------------------------------------
(* Chunked exchanges of messages with and without a chunk size of their    *)
(* own: setParameter stores any key of a version message, chunksize too.   *)

ChunkInit ==
  /\ conns = <<connect([threw |-> FALSE, isError |-> FALSE, message |-> ""])>>
  /\ engine = <<EngineIdle>>
  /\ posts = <<>>
  /\ written = <<>>
  /\ message \in { setParameter(NewMessage("version"), "chunksize", Val(0)),
                   setChunksize(NewMessage("keylist"), 10 * 1024),
                   NewMessage("version") }
  /\ chk = ChkIdle
  /\ sigs = SigsIdle
  /\ ring = RingIdle

ChunkSpec == ChunkInit /\ [][Next]_vars

----------------------------------------------------------------------------
(* Connection.post with its timer: the callback given to setTimeout runs   *)
(* once the 25 ms are over                                                 *)

TimedSpec == Init /\ [][Next]_vars /\ WF_vars(Grace)

----------------------------------------------------------------------------
(* Facade operations: every message is posted without a connection         *)
(* argument, so Message.post creates the Connection of each exchange; the  *)
(* caller holds no Connection and can disconnect none                      *)

OwnInit ==
  /\ conns = <<>>
  /\ engine = <<>>
  /\ posts = <<>>
  /\ written = <<>>
  /\ message \in PreparedMessages
  /\ chk = ChkIdle
  /\ sigs = SigsIdle
  /\ ring = RingIdle

\* await message.post(): a facade operation starts when the one before it
\* has settled
PostOwn ==
  /\ Len(posts) < MaxPosts
  /\ \A i \in DOMAIN posts : posts[i].state # "pending"
  /\ MsgPost(0)

OwnNext == PostOwn \/ Arrive \/ Drop \/ Grace

OwnSpec == OwnInit /\ [][OwnNext]_vars

----------------------------------------------------------------------------
(* Chrome background script: messages from web pages                       *)
(* (chrome.runtime.onMessageExternal) and the origins the user allows on   *)
(* the options page.  Origins are strings, modelled as sequences of        *)
(* characters.  In this specification ring holds chrome.storage.local      *)
(* (allowedOrigins, pendingOrigins: arrays without duplicates, kept as     *)
(* sets) and what became of the last external message.                     *)

Http == <<"h", "t", "t", "p", ":", "/", "/">>
Https == <<"h", "t", "t", "p", "s", ":", "/", "/">>
Localhost == <<"l", "o", "c", "a", "l", "h", "o", "s", "t">>
Loopback == <<"1", "2", "7", ".", "0", ".", "0", ".", "1">>
PortSuffix == <<":", "8", "0", "8", "0">>
ExampleHost == <<"e", "x", "a", "m", "p", "l", "e", ".", "o", "r", "g">>
OtherSuffix == <<".", "e", "v", "i", "l", ".", "c", "o", "m">>

\* Built-in allowed origins
BUILTIN_ORIGINS ==
  <<Http \o Localhost, Http \o Loopback, Https \o Localhost, Https \o Loopback>>

\* String.prototype.startsWith
startsWith(str, prefix) ==
  Len(prefix) <= Len(str) /\ SubSeq(str, 1, Len(prefix)) = prefix

\* isOriginAllowed, userOrigins being storage's allowedOrigins
isOriginAllowed(origin, userOrigins) ==
  \/ \E i \in DOMAIN BUILTIN_ORIGINS : startsWith(origin, BUILTIN_ORIGINS[i])
  \/ \E allowed \in userOrigins : startsWith(origin, allowed) \/ origin = allowed

\* addPendingOrigin: the pendingOrigins afterwards
addPendingOrigin(origin, storage) ==
  IF origin \in storage.pendingOrigins \/ origin \in storage.allowedOrigins
  THEN storage.pendingOrigins
  ELSE IF \E i \in DOMAIN BUILTIN_ORIGINS : startsWith(origin, BUILTIN_ORIGINS[i])
  THEN storage.pendingOrigins
  ELSE storage.pendingOrigins \cup {origin}

\* handlePermissionRequest: the pendingOrigins afterwards
handlePermissionRequest(origin, storage) ==
  IF isOriginAllowed(origin, storage.allowedOrigins)
  THEN storage.pendingOrigins
  ELSE addPendingOrigin(origin, storage)

\* Origins of the pages that send messages: localhost with and without a
\* port, the loopback address, two hosts whose names begin with localhost
\* and with the loopback address, a site, a host whose name begins with
\* that site's, and a sender without origin and url
SenderOrigins ==
  { Http \o Localhost,
    Http \o Localhost \o PortSuffix,
    Https \o Loopback \o PortSuffix,
    Http \o Localhost \o OtherSuffix,
    Https \o Loopback \o OtherSuffix,
    Https \o ExampleHost,
    Https \o ExampleHost \o OtherSuffix,
    <<>> }

ExternalActions == {"requestPermission", "getStatus", "decrypt"}

NoExternal == [origin |-> <<>>, action |-> "", outcome |-> "none", allowed |-> {}]

ExtInit ==
  /\ conns = <<>>
  /\ engine = <<>>
  /\ posts = <<>>
  /\ written = <<>>
  /\ message = NewMessage("version")
  /\ chk = ChkIdle
  /\ sigs = SigsIdle
  /\ ring = [allowedOrigins |-> {}, pendingOrigins |-> {}, last |-> NoExternal]

\* The onMessageExternal listener on a message of a page
ExternalMessage ==
  /\ \E origin \in SenderOrigins, action \in ExternalActions :
       LET seen == [origin |-> origin, action |-> action, outcome |-> "none",
                    allowed |-> ring.allowedOrigins]
       IN  IF action = "requestPermission"
           THEN ring' = [ring EXCEPT
                           !.pendingOrigins = handlePermissionRequest(origin, ring),
                           !.last = [seen EXCEPT !.outcome = "permission"]]
           ELSE IF ~isOriginAllowed(origin, ring.allowedOrigins)
           THEN ring' = [ring EXCEPT
                           !.pendingOrigins = addPendingOrigin(origin, ring),
                           !.last = [seen EXCEPT !.outcome = "ORIGIN_NOT_ALLOWED"]]
           ELSE ring' = [ring EXCEPT
                           !.last = [seen EXCEPT !.outcome = "handleMessage"]]
  /\ UNCHANGED <<conns, engine, posts, written, message, chk, sigs>>

\* Options page: approveOrigin on a pending request
ApproveOrigin ==
  /\ \E origin \in ring.pendingOrigins :
       ring' = [ring EXCEPT !.allowedOrigins = @ \cup {origin},
                            !.pendingOrigins = @ \ {origin}]
  /\ UNCHANGED <<conns, engine, posts, written, message, chk, sigs>>

\* Options page: denyOrigin on a pending request
DenyOrigin ==
  /\ \E origin \in ring.pendingOrigins :
       ring' = [ring EXCEPT !.pendingOrigins = @ \ {origin}]
  /\ UNCHANGED <<conns, engine, posts, written, message, chk, sigs>>

\* Options page: removeOrigin on an allowed origin
RemoveOrigin ==
  /\ \E origin \in ring.allowedOrigins :
       ring' = [ring EXCEPT !.allowedOrigins = @ \ {origin}]
  /\ UNCHANGED <<conns, engine, posts, written, message, chk, sigs>>

ExternalNext == ExternalMessage \/ ApproveOrigin \/ DenyOrigin \/ RemoveOrigin

ExternalSpec == ExtInit /\ [][ExternalNext]_vars

----------------------------------------------------------------------------
(* Properties *)

\* getmore messages written by the handler of post i
GetmoreBy(i) ==
  Cardinality({k \in DOMAIN written :
                 written[k].by = i /\ written[k].kind = "getmore"})

\* What the fragments post p was handed decode to, in arrival order
HeardBin(p) == Atob(p.heard)
HeardJson(p) == JsonParse(HeardBin(p).bytes)

\* Post p was handed N >= 1 events, all but the last with more: true, and
\* the last one final
Completed(p) == p.final /\ ~p.broken

DecodesToObject(p) ==
  HeardBin(p).ok /\ HeardJson(p).ok /\ ~HeardJson(p).isNull

\* C1: a post that was handed N events, all but the last with more: true,
\* whose fragments concatenated in arrival order decode to a JSON object of
\* a type other than "error", is resolved with exactly that object, and its
\* handler wrote exactly N-1 getmore messages.
C1_ChunkedResponseResolves ==
  \A i \in DOMAIN posts :
    LET p == posts[i]
    IN  (Completed(p) /\ DecodesToObject(p)
           /\ Prop(HeardJson(p).obj, "type") # "error")
        => /\ p.state = "resolved"
           /\ p.value = HeardJson(p).obj
           /\ GetmoreBy(i) = p.nEvents - 1

\* A post was resolved with {"a":"1"} from three events, after two getmore
C1_Witness ==
  \E i \in DOMAIN posts :
    /\ posts[i].state = "resolved"
    /\ posts[i].value = [a |-> "1"]
    /\ posts[i].nEvents = 3
    /\ GetmoreBy(i) = 2

\* C2: a post whose reassembled response decodes to an object of type
\* "error" is rejected with GNUPG_ERROR carrying the object's msg, and is
\* not resolved.
C2_ErrorEnvelopeRejects ==
  \A i \in DOMAIN posts :
    LET p == posts[i]
    IN  (Completed(p) /\ DecodesToObject(p)
           /\ Prop(HeardJson(p).obj, "type") = "error")
        => /\ p.state = "rejected"
           /\ p.code = GNUPG_ERROR
           /\ p.detail = Prop(HeardJson(p).obj, "msg")

\* A post was rejected with GNUPG_ERROR and msg "m" from a chunked response
C2_Witness ==
  \E i \in DOMAIN posts :
    /\ posts[i].state = "rejected"
    /\ posts[i].code = GNUPG_ERROR
    /\ posts[i].detail = "m"
    /\ posts[i].nEvents >= 2

\* The step adds a post() call
Posted == Len(posts') = Len(posts) + 1
NewestPost == posts'[Len(posts')]

\* C3: Message.post() on a message that lacks a required parameter of its
\* operation is rejected with MSG_INCOMPLETE naming exactly the missing
\* parameters; no Connection is created and nothing is written.
C3_IncompletePostRefused ==
  [][ (Posted /\ opDefined(message)
         /\ \E k \in Range(Required(operation(message))) :
              k \notin DOMAIN message.msg)
      => /\ NewestPost.state = "rejected"
         /\ NewestPost.code = MSG_INCOMPLETE
         /\ Range(NewestPost.missing) =
              {k \in Range(Required(operation(message))) :
                 k \notin DOMAIN message.msg}
         /\ conns' = conns
         /\ written' = written ]_vars

\* An encrypt message with data but without keys was posted and refused
C3_Witness ==
  \E i \in DOMAIN posts :
    /\ posts[i].code = MSG_INCOMPLETE
    /\ posts[i].msg.op = "encrypt"
    /\ "data" \in DOMAIN posts[i].msg
    /\ posts[i].missing = <<"keys">>
    /\ conns = <<>>
    /\ written = <<>>

\* C4: no key other than the required and optional parameters of the
\* message's operation kind (and the op and chunksize every message has)
\* appears in the message, for every operation kind.
C4_OnlyAllowedKeys ==
  \A k \in DOMAIN toJSON(message) \ {"op", "chunksize"} :
    k \in Range(Required(message.kind) \o Optional(message.kind))

\* The step is a post() on the existing Connection c whose port is not open
PostedOnClosed(c) ==
  Posted /\ NewestPost.conn = c /\ conns[c].port = "null"

\* C5: post() on a Connection whose transport handle is not open is rejected
\* in that call with a CONN_ error, writes nothing, and leaves the handle
\* closed without creating another Connection.
C5_ClosedPostRejects ==
  [][ \A c \in DOMAIN conns :
        PostedOnClosed(c)
        => /\ NewestPost.state = "rejected"
           /\ isConnectionError(NewestPost.code)
           /\ written' = written
           /\ conns'[c].port = "null"
           /\ Len(conns') = Len(conns) ]_vars

\* A post on a Connection the caller had disconnected was rejected, and so
\* was one on a Connection the transport had disconnected or not opened
C5_Witness ==
  \E i \in DOMAIN posts :
    /\ posts[i].via = "closed"
    /\ posts[i].conn \in DOMAIN conns
    /\ posts[i].state = "rejected"
    /\ conns[posts[i].conn].connectionError = "Disconnect requested by client"

\* C6: a post rejected by a transport disconnect while pending carries
\* CONN_NO_CONFIG if the transport error says the host was not found or has
\* exited, and otherwise CONN_NO_CONNECT with the raw error text.
C6_DisconnectRejection ==
  \A i \in DOMAIN posts :
    LET p == posts[i]
        err == conns[p.conn].connectionError
    IN  p.via = "disconnect"
        => IF Includes(err, "not found") \/ Includes(err, "Native host has exited")
           THEN p.code = CONN_NO_CONFIG
           ELSE p.code = CONN_NO_CONNECT /\ p.detail = err

\* Posts of Connection c that the step hands an inbound event while pending
HandedEvent(c) ==
  {i \in DOMAIN posts :
     /\ posts[i].conn = c
     /\ posts[i].state = "pending"
     /\ posts'[i].nEvents > posts[i].nEvents}

\* C7: no inbound event of a Connection is delivered to two pending posts.
C7_OneExchangeInFlight ==
  [][ \A c \in DOMAIN conns : Cardinality(HandedEvent(c)) <= 1 ]_vars

\* C8: a Connection whose transport handle is closed never has an open one
\* again.
C8_NeverReopened ==
  [][ \A c \in DOMAIN conns :
        conns[c].port = "null" => conns'[c].port = "null" ]_vars

\* A Connection disconnected by the caller has since seen a post() and a
\* checkConnection() and is still closed
C8_Witness ==
  \E i \in DOMAIN posts :
    /\ posts[i].via = "closed"
    /\ conns[posts[i].conn].connectionError = "Disconnect requested by client"
    /\ conns[posts[i].conn].port = "null"
    /\ chk.state = "false"
    /\ chk.conn = posts[i].conn

\* C9: a post handed an event without payload, or whose completed buffer
\* fails base64 or JSON decoding, is rejected with CONN_UNEXPECTED_ANSWER
\* and is not resolved.
C9_UndecodableRejects ==
  \A i \in DOMAIN posts :
    LET p == posts[i]
    IN  (p.broken \/ (Completed(p) /\ (~HeardBin(p).ok \/ ~HeardJson(p).ok)))
        => p.state = "rejected" /\ p.code = CONN_UNEXPECTED_ANSWER

\* A post was rejected on a chunked response whose complete buffer is no
\* base64
C9_Witness ==
  \E j \in DOMAIN posts :
    /\ Completed(posts[j])
    /\ posts[j].nEvents >= 2
    /\ ~HeardBin(posts[j]).ok
    /\ posts[j].code = CONN_UNEXPECTED_ANSWER

\* C10: checkConnection resolves true only on a check that finds the handle
\* open and no error recorded, resolves false only once an error is
\* recorded or the timeout has elapsed, resolves false on every check that
\* finds an error text or finds the handle closed after the timeout, and a
\* polling checkConnection always resolves.
C10_CheckConnectionSettles ==
  /\ [][ chk' # chk =>
           /\ chk'.state = "true" =>
                /\ conns[chk'.conn].port = "open"
                /\ conns[chk'.conn].connectionError = Null
           /\ chk'.state = "false" =>
                \/ conns[chk'.conn].connectionError # Null
                \/ chk'.elapsed > chk'.timeout
           /\ (\/ Truthy(conns[chk'.conn].connectionError)
               \/ (conns[chk'.conn].port = "null"
                     /\ chk'.elapsed > chk'.timeout))
                => chk'.state = "false" ]_vars
  /\ (chk.state = "polling") ~> (chk.state \in {"true", "false"})

\* A checkConnection that polled until its timeout had elapsed resolved
\* false
C10_Witness ==
  /\ chk.state = "false"
  /\ chk.timeout = PollInterval
  /\ chk.elapsed > chk.timeout
  /\ ~Truthy(conns[chk.conn].connectionError)

----------------------------------------------------------------------------
(* Properties of the signature normalizer *)

\* An entry createSignature can read: an object whose fingerprint, when
\* present, is a string
IsSignatureRecord(raw) ==
  raw.t = "object" /\ raw.fingerprint.is \in {"undefined", "null", "string"}

\* An optional boolean of the raw summary, missing read as false
RawFlag(raw, key) == raw.summary.is = "object" /\ raw.summary[key] = "true"

\* The records of the normalized output that came from the bad list
BadOutput ==
  SubSeq(sigs.out, Len(SelectSeq(sigs.data.good, IsSignatureRecord)) + 1,
         Len(sigs.out))

\* C11: for every record of a flat list, the resulting valid flag equals
\* (status_code = 0 or summary.valid) and not summary.red, missing summary
\* fields read as false.
C11_FlatValidFlag ==
  (sigs.done /\ sigs.data.kind = "flat")
  => LET given == SelectSeq(sigs.data.list, IsSignatureRecord)
     IN  /\ Len(sigs.out) = Len(given)
         /\ \A i \in DOMAIN given :
              sigs.out[i].valid
                = ((given[i].status_code = 0 \/ RawFlag(given[i], "valid"))
                   /\ ~RawFlag(given[i], "red"))

\* A flat list was normalized to one signature valid by summary.valid alone
\* and one invalid by summary.red despite status_code 0
C11_Witness ==
  /\ sigs.done /\ sigs.data.kind = "flat" /\ Len(sigs.out) = 2
  /\ sigs.out[1].rawSigObject.status_code = 1
  /\ RawFlag(sigs.out[1].rawSigObject, "valid")
  /\ sigs.out[1].valid
  /\ sigs.out[2].rawSigObject.status_code = 0
  /\ RawFlag(sigs.out[2].rawSigObject, "red")
  /\ ~sigs.out[2].valid

\* C12: a record of the bad list is valid only if status_code = 0 and
\* validity = 3 and summary.keyMissing is not set; keyMissing = true or
\* status_code = 9 gives valid = false whatever the other fields are.
C12_BadValidFlag ==
  (sigs.done /\ sigs.data.kind = "object")
  => LET given == SelectSeq(sigs.data.bad, IsSignatureRecord)
     IN  /\ Len(BadOutput) = Len(given)
         /\ \A i \in DOMAIN given :
              /\ BadOutput[i].valid
                   => /\ given[i].status_code = 0
                      /\ given[i].validity = 3
                      /\ ~RawFlag(given[i], "keyMissing")
              /\ (RawFlag(given[i], "keyMissing") \/ given[i].status_code = 9)
                   => ~BadOutput[i].valid

\* A bad list was normalized to one signature valid by status_code 0 and
\* validity 3, and one with the same status invalid by summary.keyMissing
C12_Witness ==
  /\ sigs.done /\ sigs.data.kind = "object" /\ Len(BadOutput) = 2
  /\ BadOutput[1].rawSigObject.status_code = 0
  /\ BadOutput[1].rawSigObject.validity = 3
  /\ BadOutput[1].valid
  /\ BadOutput[2].rawSigObject.status_code = 0
  /\ BadOutput[2].rawSigObject.validity = 3
  /\ RawFlag(BadOutput[2].rawSigObject, "keyMissing")
  /\ ~BadOutput[2].valid

\* C13: allSignaturesValid is false for the empty list and, for a non-empty
\* list, true exactly when every entry has valid = true.
C13_AllSignaturesValid ==
  sigs.done
  => /\ sigs.out = <<>> => ~sigs.isValid
     /\ sigs.out # <<>>
          => (sigs.isValid <=> \A i \in DOMAIN sigs.out : sigs.out[i].valid)

\* A verification whose entries were all dropped was reported not valid
C13_Witness ==
  /\ sigs.done
  /\ SigRecords(sigs.data) > 0
  /\ sigs.out = <<>>
  /\ ~sigs.isValid

\* C14: collectSignatures completes on a batch with entries that cannot be
\* read (null, no object); those are omitted and every other record of the
\* batch appears in the output, in order.
C14_UnparseableDropped ==
  sigs.done
  => LET given ==
           IF sigs.data.kind = "flat"
           THEN SelectSeq(sigs.data.list, IsSignatureRecord)
           ELSE SelectSeq(sigs.data.good, IsSignatureRecord)
                  \o SelectSeq(sigs.data.bad, IsSignatureRecord)
     IN  /\ Len(sigs.out) = Len(given)
         /\ \A i \in DOMAIN given : sigs.out[i].rawSigObject = given[i]

\* A batch of a null entry followed by a record was normalized to the record
C14_Witness ==
  /\ sigs.done /\ sigs.data.kind = "flat"
  /\ Len(sigs.data.list) = 2
  /\ sigs.data.list[1].t = "null"
  /\ IsSignatureRecord(sigs.data.list[2])
  /\ Len(sigs.out) = 1
  /\ sigs.out[1].rawSigObject = sigs.data.list[2]

----------------------------------------------------------------------------
(* Properties of createKey *)

\* The key with fingerprint fpr and nothing else: no user ids, no subkeys,
\* every flag false
MinimalKey(fpr) ==
  [fingerprint |-> fpr,
   keyId |-> SubSeq(fpr, FprLen - KeyIdLen + 1, FprLen),
   userIds |-> <<>>, subkeys |-> <<>>,
   hasSecret |-> FALSE, canEncrypt |-> FALSE, canSign |-> FALSE,
   canCertify |-> FALSE, canAuthenticate |-> FALSE,
   isRevoked |-> FALSE, isExpired |-> FALSE, isDisabled |-> FALSE,
   isInvalid |-> FALSE, created |-> 0, expires |-> NoNumber]

Created == ring.op = "createKey" /\ ring.pc = "done"

\* C15: createKey(fp, raw) where raw.fingerprint differs, compared without
\* case, from fp returns the minimal key of fp upper-cased whatever else raw
\* contains: no user ids, no subkeys, every flag false.
C15_MismatchGivesMinimalKey ==
  (/\ Created
   /\ ring.error = ""
   /\ ring.arg.data.given
   /\ toUpperCase(ring.arg.data.fingerprint)
        # toUpperCase(ring.arg.fingerprint))
  => ring.result = MinimalKey(toUpperCase(ring.arg.fingerprint))

\* createKey was given the fully flagged record of another key, and returned
\* the minimal key
C15_Witness ==
  /\ Created
  /\ ring.error = ""
  /\ ring.arg.fingerprint = Fill("a", FprLen)
  /\ ring.arg.data = FullKey(Fill("b", FprLen))
  /\ ring.result = MinimalKey(Fill("A", FprLen))

\* C16: createKey fails with KEY_INVALID for every fingerprint that is not
\* exactly 40 hexadecimal characters, and for every 40-hex fingerprint, in
\* any letter case, returns a key whose fingerprint is the upper-cased input.
C16_FingerprintChecked ==
  Created
  => LET fp == ring.arg.fingerprint
         wellFormed ==
           /\ Len(fp) = 40
           /\ \A i \in DOMAIN fp : fp[i] \in HexChars
     IN  /\ ~wellFormed => ring.error = KEY_INVALID
         /\ wellFormed
              => /\ ring.error = ""
                 /\ ring.result.fingerprint = toUpperCase(fp)

\* createKey returned the upper-cased key of a mixed-case fingerprint
C16_Witness ==
  /\ Created
  /\ ring.arg.fingerprint = <<"a">> \o Fill("A", FprLen - 1)
  /\ ring.error = ""
  /\ ring.result.fingerprint = Fill("A", FprLen)

----------------------------------------------------------------------------
(* Properties of the keyring facade *)

\* importKey returned for an import response that carried entries
Imported ==
  /\ ring.op = "importKey" /\ ring.pc = "done"
  /\ ring.imports # <<>>
  /\ ring.error = ""

\* An import entry whose fingerprint is 40 hexadecimal characters
WellFormedEntry(imp) ==
  /\ imp.fingerprint.is = "string"
  /\ Len(imp.fingerprint.s) = 40
  /\ \A i \in DOMAIN imp.fingerprint.s : imp.fingerprint.s[i] \in HexChars

\* C17: importKey decodes each import entry's status bitmask: 0 gives
\* nochange, bit 0 set gives newkey, any other status gives change with
\* changes.userId, changes.signature, changes.subkey true exactly when bits
\* 1, 2 and 3 are set.
C17_StatusDecoded ==
  (Imported /\ ~ring.arg.prepareSync)
  => /\ Len(ring.result) = Len(ring.imports)
     /\ \A i \in DOMAIN ring.imports :
          LET st == ring.imports[i].status
              k == ring.result[i]
          IN  /\ st = 0 => k.status = "nochange"
              /\ st % 2 = 1 => k.status = "newkey"
              /\ (st # 0 /\ st % 2 = 0)
                   => /\ k.status = "change"
                      /\ k.changes.userId = ((st \div 2) % 2 = 1)
                      /\ k.changes.signature = ((st \div 4) % 2 = 1)
                      /\ k.changes.subkey = ((st \div 8) % 2 = 1)

\* C18: importKey skips an import entry that cannot be parsed (a missing
\* fingerprint, or one that is not 40 hexadecimal characters) and returns
\* the remaining entries of the batch instead of failing the import.
C18_BadEntrySkipped ==
  (/\ ring.op = "importKey" /\ ring.pc = "done"
   /\ ~ring.arg.prepareSync
   /\ \E i \in DOMAIN ring.imports : WellFormedEntry(ring.imports[i])
   /\ \E i \in DOMAIN ring.imports : ~WellFormedEntry(ring.imports[i]))
  => /\ ring.error = ""
     /\ Len(ring.result) = Len(SelectSeq(ring.imports, WellFormedEntry))

\* A key the scan may return: not invalid, not expired, not revoked, and
\* sign-capable
MayBeDefault(keyData) ==
  /\ ~(keyData.invalid = "true")
  /\ ~(keyData.expired = "true")
  /\ ~(keyData.revoked = "true")
  /\ keyData.can_sign = "true"

Scanned ==
  \E n \in DOMAIN ring.trace : ring.trace[n] = "keylist-scan"

\* getDefaultKey ended after its scan's listing was answered
ScanAnswered ==
  /\ ring.op = "getDefaultKey" /\ ring.pc = "done"
  /\ Scanned
  /\ ring.error \notin PostErrors

\* C19: when no configured default key is resolved, getDefaultKey returns
\* the first key, in the order of the secret listing, that is not invalid,
\* not expired, not revoked and sign-capable, skipping every earlier key that
\* fails one of these.
C19_FirstQualifyingKey ==
  ScanAnswered
  => \A i \in DOMAIN ring.listing :
       (/\ MayBeDefault(ring.listing[i])
        /\ \A j \in 1..(i - 1) : ~MayBeDefault(ring.listing[j]))
       => /\ ring.error = ""
          /\ ring.result.fingerprint
               = toUpperCase(ring.listing[i].fingerprint)
          /\ ring.result.canSign /\ ring.result.hasSecret
          /\ ~ring.result.isInvalid /\ ~ring.result.isExpired
          /\ ~ring.result.isRevoked

\* The scan skipped a key that cannot sign and returned the one after it
C19_Witness ==
  /\ ScanAnswered
  /\ ring.listing = <<KeyB, KeyA>>
  /\ ring.error = ""
  /\ ring.result.fingerprint = Fill("A", FprLen)

\* The probe resolved the configured default key to exactly one key
ProbeFoundOne == ring.probe = "resolved" /\ Len(ring.keys) = 1

\* C20: getDefaultKey queries the configured default-key option first and
\* returns that key without scanning when it resolves to exactly one key; in
\* every other case the probe's outcome is discarded and the scan runs, and
\* getDefaultKey fails with KEY_NO_DEFAULT exactly when the scan finds no
\* qualifying key.
C20_ProbeThenScan ==
  ring.op = "getDefaultKey"
  => /\ ring.trace[1] = "config_opt"
     /\ ring.pc = "done"
          => /\ ProbeFoundOne
                  => /\ ring.error = ""
                     /\ ring.result = ring.keys[1]
                     /\ ~Scanned
             /\ ~ProbeFoundOne => Scanned
             /\ ring.error = KEY_NO_DEFAULT
                  <=> /\ ScanAnswered
                      /\ \A i \in DOMAIN ring.listing :
                           ~MayBeDefault(ring.listing[i])

\* The probe's key listing failed, and the scan returned a key
C20_Witness ==
  /\ ring.op = "getDefaultKey" /\ ring.pc = "done"
  /\ ring.probe = "getKeys failed"
  /\ Scanned
  /\ ring.error = ""
  /\ ring.result.fingerprint = Fill("A", FprLen)

----------------------------------------------------------------------------
(* Properties of generateKey *)

\* A generateKey call has ended
Generated == ring.op = "generateKey" /\ ring.pc = "done"

\* The algorithm argument names an algorithm outside the allow-list
BadAlgo(arg) == Truthy(arg.algo) /\ arg.algo \notin Range(supportedKeyAlgos)

\* The expires argument is given and is not a non-negative integer
BadExpires(arg) ==
  /\ arg.expires.is # "undefined"
  /\ ~(arg.expires.is = "number" /\ arg.expires.halves % 2 = 0
       /\ arg.expires.halves >= 0)

----------------------------------------------------------------------------
(* Properties of keys with methods *)

\* The data fields of a Key
KeyFields ==
  {"fingerprint", "keyId", "userIds", "subkeys", "hasSecret", "canEncrypt",
   "canSign", "canCertify", "canAuthenticate", "isRevoked", "isExpired",
   "isDisabled", "isInvalid", "created", "expires"}

\* A refresh() call has ended after the engine answered its keylist
Refreshed ==
  ring.op = "refresh" /\ ring.pc = "done" /\ ring.probe = "answered"

\* The engine returned zero keys
ZeroKeys == ring.listing = <<>>

\* C22: refresh() fails with KEY_NOKEY when the engine returns zero keys and
\* then leaves every property of the instance as it was; otherwise it
\* returns the instance itself, whose data fields are those of the Key made
\* from the first re-fetched record by createKey, and whose getArmor, delete
\* and refresh are still there
C22_RefreshInPlace ==
  Refreshed =>
    LET this == ring.keys[1]
        before == ring.arg
    IN  IF ZeroKeys
        THEN ring.error = KEY_NOKEY /\ this = before
        ELSE /\ ring.error = ""
             /\ ring.result = [ref |-> 1]
             /\ DOMAIN this = KeyFields \cup KeyMethods
             /\ \A p \in KeyFields :
                  this[p] = createKey(before.fingerprint, ring.listing[1]).key[p]
             /\ \A m \in KeyMethods : this[m] = before[m]

C22_Witness ==
  /\ Refreshed
  /\ ~ZeroKeys
  /\ ring.arg.isRevoked = FALSE
  /\ ring.keys[1].isRevoked = TRUE
  /\ ring.keys[1].refresh = "function"
  /\ ring.result = [ref |-> 1]

----------------------------------------------------------------------------
(* Properties of encrypt and decrypt *)

\* encrypt() and then decrypt() of its output have both been answered
RoundTripDone ==
  /\ ring.op = "roundtrip"
  /\ ring.pc = "done"
  /\ ring.trace = <<"encrypt", "decrypt">>

\* C23: for every text, ASCII or multi-byte, encrypt() followed by decrypt()
\* of its output, both answered by the engine that hands back what it was
\* given, returns data equal to the original text
C23_RoundTripReturnsText ==
  RoundTripDone => ring.error = "" /\ ring.result = ring.arg.data

----------------------------------------------------------------------------
(* Properties of setParameter *)

\* C24: on every message a caller can have built, setParameter throws for no
\* key and value, and a call whose value is null or undefined leaves the
\* message exactly as it was
C24_SetParameterNeverThrows ==
  LET Silent(key, value) ==
        LET after == setParameter(message, key, value)
        IN  /\ ~after.threw
            /\ ~isSettable(value) => after = message
  IN  \A key \in Keys :
        /\ Silent(key, JsNull)
        /\ Silent(key, JsUndefined)
        /\ \A v \in ValuesFor(key) : Silent(key, Val(v))

----------------------------------------------------------------------------
(* Properties of getKeys *)

\* C25: getKeys called with secret: true returns only keys that have a
\* secret part
C25_SecretOnly ==
  ring.op = "getKeys" /\ ring.pc = "done" /\ ring.arg.secret =>
    \A i \in DOMAIN ring.result : ring.result[i].hasSecret

----------------------------------------------------------------------------
(* Properties of signing *)

\* pgp.sign was called on a connected extension with data to sign
SignCalled ==
  ring.op = "sign" /\ ring.arg.connected /\ ring.arg.data # <<>>

\* C26: pgp.sign(data) without a signing key reaches the engine as a sign
\* operation and is not rejected for lack of keys
C26_SignsWithDefaultKey ==
  SignCalled /\ ring.arg.options.signingKey = NoKey =>
    ring.trace = <<"sign">> /\ ring.error # MSG_NO_KEYS

\* C27: pgp.sign(data, {mode: 'detached'}) resolves to the signature the
\* engine produced, not to the input data
C27_DetachedSignature ==
  /\ SignCalled
  /\ ring.arg.options.mode = "detached"
  /\ ring.pc = "done"
  /\ ring.error = ""
  => /\ ring.result = rawDataOf([data |-> ring.listing,
                                 base64 |-> ring.probe = "flagged"], Null).text
     /\ ring.result # ring.arg.data

----------------------------------------------------------------------------
(* Properties of the order of writes in Connection.post *)

\* The entries of the write log that post i wrote
WrittenBy(i) == {k \in DOMAIN written : written[k].by = i}

\* Post i got past the guard of Connection.post: its Connection was open
OnOpen(i) == posts[i].via \notin {"refused", "closed"}

\* C28: every post() on an open Connection has both the inbound-event
\* handler and the disconnect handler registered when it writes its request,
\* and from the write on, as long as the promise is pending, both handlers
\* stay registered
C28_HandlersBeforeWrite ==
  \A i \in DOMAIN posts :
    OnOpen(i) =>
      /\ posts[i].atWrite = "registered"
      /\ posts[i].state = "pending" => posts[i].listening /\ posts[i].disc

C28_Witness ==
  \E i \in DOMAIN posts :
    /\ OnOpen(i)
    /\ WrittenBy(i) # {}
    /\ posts[i].atWrite = "registered"
    /\ posts[i].nEvents >= 1
    /\ posts[i].state = "resolved"


\* The entries of the write log by which post i sent its request message
RequestsBy(i) ==
  {k \in WrittenBy(i) : written[k].msg.op = posts[i].msg.op}

\* C29: a post() on an open Connection writes its request message exactly
\* once (not at all when the write itself threw), whatever happens to it
\* afterwards: everything else it writes is a getmore continuation
C29_RequestWrittenOnce ==
  \A i \in DOMAIN posts :
    OnOpen(i) =>
      /\ Cardinality(RequestsBy(i)) = IF posts[i].via = "write" THEN 0 ELSE 1
      /\ \A k \in RequestsBy(i) :
           written[k].kind = "request" /\ written[k].msg = posts[i].msg
      /\ \A k \in WrittenBy(i) \ RequestsBy(i) : written[k].msg.op = "getmore"

C29_Witness ==
  \E i \in DOMAIN posts :
    /\ OnOpen(i)
    /\ posts[i].state = "rejected"
    /\ posts[i].via = "disconnect"
    /\ Cardinality(RequestsBy(i)) = 1
    /\ \E k \in WrittenBy(i) : written[k].kind = "getmore"

----------------------------------------------------------------------------
(* Properties of the grace-period check of Connection.post *)

\* The step is the grace-period timer callback of post i
GraceFired(i) == posts[i].timer /\ ~posts'[i].timer

\* C31: at the grace-period check of a post() that is still pending, a
\* recorded connection error rejects the post there (CONN_NO_CONFIG when
\* the host-unknown flag is set, otherwise CONN_NO_CONNECT with the error
\* text); with no error recorded the check changes nothing
C31_GraceCheckRejects ==
  [][ \A i \in DOMAIN posts :
        GraceFired(i) =>
          LET p == posts[i]
              conn == conns[p.conn]
          IN  /\ conns' = conns /\ written' = written
              /\ (p.state = "pending" /\ conn.connectionError # Null) =>
                   /\ posts'[i].state = "rejected"
                   /\ IF conn.isNativeHostUnknown
                      THEN posts'[i].code = CONN_NO_CONFIG
                      ELSE /\ posts'[i].code = CONN_NO_CONNECT
                           /\ posts'[i].detail = conn.connectionError
              /\ conn.connectionError = Null =>
                   posts'[i] = [p EXCEPT !.timer = FALSE] ]_vars

\* A post the caller's disconnect() left pending was rejected by its
\* grace-period check
C31_Witness ==
  \E i \in DOMAIN posts :
    /\ posts[i].via = "timer"
    /\ posts[i].state = "rejected"
    /\ posts[i].code = CONN_NO_CONNECT
    /\ posts[i].detail = "Disconnect requested by client"
    /\ WrittenBy(i) # {}

----------------------------------------------------------------------------
(* Properties of the capability flags of createKey *)

\* The raw record createKey was given is the one it builds the key from
DataUsed ==
  /\ ring.arg.data.given
  /\ toUpperCase(ring.arg.data.fingerprint) = toUpperCase(ring.arg.fingerprint)

\* The capability is the top-level flag when it is present, and otherwise
\* whether some subkey of the raw record has it
Capability(flag, subflags, capability) ==
  IF flag # "undefined"
  THEN capability = (flag = "true")
  ELSE capability = (\E i \in DOMAIN subflags : subflags[i] = "true")

\* C32: in the key createKey returns, each of canEncrypt, canSign,
\* canCertify and canAuthenticate is the top-level flag of the raw record
\* when that flag is present, an explicit false included, and when it is
\* absent is true exactly if at least one subkey has the capability
C32_CapabilityFallback ==
  (Created /\ ring.error = "" /\ DataUsed) =>
    LET data == ring.arg.data
        key == ring.result
        sub == data.subkeys
    IN  /\ Capability(data.can_encrypt,
                      [i \in DOMAIN sub |-> sub[i].can_encrypt], key.canEncrypt)
        /\ Capability(data.can_sign,
                      [i \in DOMAIN sub |-> sub[i].can_sign], key.canSign)
        /\ Capability(data.can_certify,
                      [i \in DOMAIN sub |-> sub[i].can_certify], key.canCertify)
        /\ Capability(data.can_authenticate,
                      [i \in DOMAIN sub |-> sub[i].can_authenticate],
                      key.canAuthenticate)

\* createKey was given top-level flags that say false for encrypting and
\* signing, with subkeys that can do both, and returned a key that can do
\* neither
C32_Witness ==
  /\ Created /\ ring.error = "" /\ DataUsed
  /\ ring.arg.data = FlaggedOff(Fill("A", FprLen))
  /\ ~ring.result.canEncrypt /\ ~ring.result.canSign
  /\ ring.result.canAuthenticate

----------------------------------------------------------------------------
(* Properties of isComplete and getMissingParams *)

\* The required parameters of the operation the message was created for
\* that are not set on it
Unset(m) == {k \in Range(Required(m.kind)) : k \notin DOMAIN m.msg}

\* C33: after any sequence of setParameter calls, isComplete() and
\* getMissingParams() return, isComplete() is true exactly when
\* getMissingParams() is empty, which is exactly when every required
\* parameter of the message's operation has been set; setting an optional
\* parameter changes neither result
C33_CompleteIffNoneMissing ==
  /\ opDefined(message)
  /\ isComplete(message) <=> getMissingParams(message) = <<>>
  /\ isComplete(message) <=> Unset(message) = {}
  /\ Range(getMissingParams(message)) = Unset(message)
  /\ \A key \in Keys \cap Range(Optional(message.kind)) :
       \A v \in ValuesFor(key) :
         LET after == setParameter(message, key, Val(v))
         IN  /\ isComplete(after) <=> isComplete(message)
             /\ getMissingParams(after) = getMissingParams(message)

----------------------------------------------------------------------------
(* Properties of the chunk size of a Message *)

\* C34: the chunk size a Message serializes is 1023 * 1024 on creation and
\* at least 10 * 1024 in every reachable state, under any sequence of
\* chunksize assignments, setParameter calls and expected assignments;
\* assigning a value below 10 * 1024 leaves the chunk size as it was
C34_ChunksizeFloor ==
  /\ message.sets = 0 => toJSON(message).chunksize = 1023 * 1024
  /\ toJSON(message).chunksize >= 10 * 1024
  /\ \A value \in {0, 1, 10 * 1024 - 1} :
       toJSON(setChunksize(message, value)).chunksize
         = toJSON(message).chunksize

----------------------------------------------------------------------------
(* Properties of the operation of a Message *)

\* C36: the operation of a Message, the op field it serializes and sends,
\* is the one it was constructed with in every reachable state, under any
\* sequence of setParameter calls and chunksize and expected assignments,
\* for every operation kind
C36_OperationFixed ==
  /\ operation(message) = message.kind
  /\ toJSON(message).op = message.kind
  /\ \A i \in DOMAIN posts :
       posts[i].state # "rejected" => posts[i].msg.op = message.kind

----------------------------------------------------------------------------
(* Properties of the fields of a Connection *)

\* C35: in every reachable state of a Connection the transport handle is
\* null exactly when a connection error has been recorded, and the
\* host-unknown flag is set only while the handle is null
C35_HandleNullIffError ==
  \A c \in DOMAIN conns :
    /\ conns[c].port = "null" <=> conns[c].connectionError # Null
    /\ conns[c].isNativeHostUnknown => conns[c].port = "null"

\* A Connection lost its transport with the host reported as exited while a
\* post was pending on it; the grace-period timer of the post has fired
C35_Witness ==
  \E i \in DOMAIN posts :
    /\ posts[i].via = "disconnect"
    /\ posts[i].code = CONN_NO_CONFIG
    /\ conns[posts[i].conn].isNativeHostUnknown
    /\ conns[posts[i].conn].port = "null"
    /\ conns[posts[i].conn].connectionError = "Native host has exited."
    /\ ~posts[i].timer

----------------------------------------------------------------------------
(* Properties of the settling of Connection.post *)

\* Post i was handed a final inbound event: one without more: true, an
\* event without payload included
FinalDelivered(i) ==
  posts[i].nEvents > 0 /\ (posts[i].final \/ posts[i].broken)

\* The transport of the Connection of post i reported a disconnect after
\* the post had started
TransportDropped(i) ==
  conns[posts[i].conn].connectionError
    \notin {Null, "Disconnect requested by client"}

\* C37: a post() on an open Connection is settled, resolved or rejected,
\* from the moment the transport has delivered a final inbound event or a
\* disconnect event for it; so it eventually settles provided one of the
\* two is eventually delivered
C37_SettlesOnFinalOrDisconnect ==
  \A i \in DOMAIN posts :
    (OnOpen(i) /\ (FinalDelivered(i) \/ TransportDropped(i)))
      => posts[i].state \in {"resolved", "rejected"}

\* The transport dropped, without an error message, in the middle of a
\* chunked response, and the post was rejected
C37_Witness ==
  \E i \in DOMAIN posts :
    /\ OnOpen(i)
    /\ posts[i].nEvents >= 1 /\ ~FinalDelivered(i)
    /\ TransportDropped(i)
    /\ conns[posts[i].conn].connectionError = "Disconnected without error message"
    /\ posts[i].state = "rejected"

----------------------------------------------------------------------------
(* Properties of disconnect() during a pending post() *)

\* Post i is pending on a Connection the caller has disconnected
PendingOnDisconnected(i) ==
  /\ i \in DOMAIN posts
  /\ posts[i].state = "pending"
  /\ conns[posts[i].conn].connectionError = "Disconnect requested by client"

\* C38: a post() that is pending on a Connection when disconnect() is
\* called on it is eventually rejected with a connection-class error
C38_DisconnectRejectsPending ==
  \A i \in 1..MaxPosts :
    PendingOnDisconnected(i)
      ~> (/\ i \in DOMAIN posts
          /\ posts[i].state = "rejected"
          /\ isConnectionError(posts[i].code))

----------------------------------------------------------------------------
(* Properties of the Connection that Message.post creates *)

\* C39: once a post() made without a connection argument has settled, the
\* Connection that Message.post created for it has no open transport
\* handle, so that a sequence of facade operations leaves no open
\* connections behind
C39_OwnConnectionClosed ==
  \A i \in DOMAIN posts :
    (posts[i].conn # 0 /\ posts[i].state \in {"resolved", "rejected"})
      => conns[posts[i].conn].port = "null"

----------------------------------------------------------------------------
(* Properties of the origin check on external messages *)

Digits == {"0", "1", "2", "3", "4", "5", "6", "7", "8", "9"}

\* origin is scheme://localhost or scheme://127.0.0.1, alone or followed by
\* a port
IsLocalOrigin(origin) ==
  \E i \in DOMAIN BUILTIN_ORIGINS :
    LET builtin == BUILTIN_ORIGINS[i]
    IN  \/ origin = builtin
        \/ /\ startsWith(origin, builtin \o <<":">>)
           /\ Len(origin) > Len(builtin) + 1
           /\ \A k \in (Len(builtin) + 2)..Len(origin) : origin[k] \in Digits

\* C40: an external message is passed to handleMessage only if its
\* sender's origin is a built-in localhost or 127.0.0.1 origin, with any
\* port, or an origin the user has added to allowedOrigins
C40_OnlyAllowedOriginsHandled ==
  ring.last.outcome = "handleMessage" =>
    \/ IsLocalOrigin(ring.last.origin)
    \/ ring.last.origin \in ring.last.allowed

====
